---- MODULE Spec2Model ----
(***************************************************************************)
(* The dataflow graph engine of the node editor widget                     *)
(* (src/src/widget/node_editor.rs, impl Graph / Builder / Data) driven by  *)
(* the evaluation callback of the node editor example                      *)
(* (src/examples/node_editor/src/main.rs, Instruction::evaluate).          *)
(*                                                                         *)
(* An Option<u32> is a sequence: <<>> is None and <<v>> is Some(v).        *)
(* A HashMap / HashSet iterates in an order the program does not fix; an   *)
(* operation that iterates one takes that order as the parameter ord, a    *)
(* permutation of the node ids, and the actions choose it freely.          *)
(***************************************************************************)
EXTENDS Integers, Sequences, FiniteSets, TLC

\* ------------------------------------------------------------------ bounds
\* Node ids a graph issues (finished and dropped builders together).
MaxNodes == 3
\* Input ports declared on the builders of one graph.
MaxInputs == 4
\* Builders dropped without finish.
MaxDropped == 1
\* Node ids a graph issues under SpecAll, where every operation is called.
SmallNodes == 2
\* Largest u32 a cached value may hold; a call that would cache a larger one
\* is not taken.
MaxValue == 8
\* The Typewriter: the longest fragment, the slowest speed (milliseconds a
\* character), the longest time between two redraws (milliseconds), and the
\* number of layouts that see a different text.
MaxChars == 2
MaxSpeed == 2
MaxStep == 2
MaxChanges == 2
\* The largest coordinate of the translation (in eighths) and the largest
\* width or height of a node that the editor events are followed to.
MaxTranslation == 3200
MaxSize == 400

\* The numbers a Number node is given at construction or typed by the user.
Numbers == {1, 2}
\* Where the application places a new node: (10, 10), in halves.
Spots == {<<20, 20>>}
\* The variants of Instruction.
Kinds == {"Number", "Add", "Display"}

VARIABLES
    nodes,   \* Graph::nodes   : Node -> State (the registry)
    links,   \* Graph::links   : InputId -> OutputId
    values,  \* Graph::values  : OutputId -> Value
    current, \* Graph::current : the next node id
    order,   \* Graph::order   : the stacking order
    issued,  \* the port handles the builders gave out, and the dropped builders
    last,    \* history: the last mutating call and its invalidation pass
    query,   \* the result of the last read-only query since the last mutation
    editor,  \* the NodeEditor over the graph: interaction, zoom, Internal
    typewriter \* a Typewriter widget: its State and the clock of the redraws

vars == <<nodes, links, values, current, order, issued, last, query, editor, typewriter>>

\* ----------------------------------------------------------------- helpers
None == <<>>
Some(v) == <<v>>

Range(s) == {s[k] : k \in DOMAIN s}

\* HashMap::insert / HashMap::remove on a map held as a function.
insert(map, k, v) == [x \in (DOMAIN map) \cup {k} |-> IF x = k THEN v ELSE map[x]]
remove(map, k) == [x \in (DOMAIN map) \ {k} |-> map[x]]

RECURSIVE remove_all(_, _)
remove_all(map, keys) ==
    IF keys = <<>> THEN map ELSE remove_all(remove(map, Head(keys)), Tail(keys))

\* The transitive closure of a relation held as a set of pairs.
RECURSIVE Closure(_)
Closure(R) ==
    LET R2 == R \cup {<<x[1][1], x[2][2]>> : x \in {y \in R \X R : y[1][2] = y[2][1]}}
    IN IF R2 = R THEN R ELSE Closure(R2)

\* The iteration orders a hash container over the node ids in S can have.
HashOrders(S) ==
    {p \in [1..Cardinality(S) -> S] :
        \A a, b \in 1..Cardinality(S) : a # b => p[a] # p[b]}

\* A Point: its coordinates are f32 in the code and counted in halves here,
\* so Point(21, -1) is the point (10.5, -0.5).
Point(x, y) == <<x, y>>

\* f32::round on a coordinate in halves: half-way cases go away from zero.
round(c) == IF c % 2 = 0 THEN c ELSE IF c > 0 THEN c + 1 ELSE c - 1

\* -------------------------------------------------------------- identities
InputId(node, name) == [node |-> node, name |-> name]
OutputId(node, name) == [node |-> node, name |-> name]

\* The ports Example::new declares on the builder of each kind of node.
builder_inputs(node, kind) ==
    CASE kind = "Add" -> <<InputId(node, "a"), InputId(node, "b")>>
      [] kind = "Display" -> <<InputId(node, "value")>>
      [] OTHER -> <<>>

builder_outputs(node, kind) ==
    CASE kind = "Number" -> <<OutputId(node, "output")>>
      [] kind = "Add" -> <<OutputId(node, "result")>>
      [] OTHER -> <<>>

\* The Instruction built on those handles; n is the constant of a Number.
Instruction(node, kind, n) ==
    CASE kind = "Number" ->
            [kind |-> "Number", n |-> n, output |-> OutputId(node, "output")]
      [] kind = "Add" ->
            [kind |-> "Add", a |-> InputId(node, "a"), b |-> InputId(node, "b"),
             output |-> OutputId(node, "result")]
      [] OTHER ->
            [kind |-> "Display", input |-> InputId(node, "value")]

\* ------------------------------------------------------------------- Data
\* Mutant of get: a read that finds no value returns the default of u32.
get_or_default(ls, vs, input) ==
    IF input \notin DOMAIN ls THEN Some(0)
    ELSE IF ls[input] \notin DOMAIN vs THEN Some(0)
    ELSE IF vs[ls[input]] = None THEN Some(0)
    ELSE vs[ls[input]]

\* Data::get and Graph::input: the linked output's cached value, if any.
get(ls, vs, input) ==
    IF input \notin DOMAIN ls THEN None
    ELSE IF ls[input] \notin DOMAIN vs THEN None
    ELSE vs[ls[input]]

input(i) == get(links, values, i)

\* Data::set_with: the cache entry of output becomes Value::new(f(self)).
set_with(vs, output, produced) == insert(vs, output, produced)

\* Data::set
set(vs, output, value) == set_with(vs, output, Some(value))

\* What the Add closure returns: Some(data.get(a)? + data.get(b)?).
add_closure(ls, vs, a, b) ==
    IF get(ls, vs, a) = None \/ get(ls, vs, b) = None
    THEN None
    ELSE Some(get(ls, vs, a)[1] + get(ls, vs, b)[1])

\* Instruction::evaluate, the evaluation callback of the graph.
Instruction_evaluate(state, ls, vs) ==
    CASE state.kind = "Number" -> set(vs, state.output, state.n)
      [] state.kind = "Add" ->
            set_with(vs, state.output, add_closure(ls, vs, state.a, state.b))
      [] OTHER -> vs

\* ------------------------------------------------------------------ Graph
\* Mutant of evaluate: the cached outputs are dropped and the callback is not
\* run.
evaluate_clear_only(ns, ls, vs, node) ==
    IF node \notin DOMAIN ns THEN vs ELSE remove_all(vs, ns[node].outputs)

\* Mutant of evaluate: the cached outputs are not dropped, and an output the
\* callback produced no value for keeps the entry it had.
evaluate_keep(ns, ls, vs, node) ==
    IF node \notin DOMAIN ns THEN vs
    ELSE LET after == Instruction_evaluate(ns[node].state, ls, vs)
         IN [o \in DOMAIN after |->
                IF after[o] = None /\ o \in DOMAIN vs THEN vs[o] ELSE after[o]]

\* Graph::evaluate: drop the node's cached outputs, then run the callback.
evaluate(ns, ls, vs, node) ==
    IF node \notin DOMAIN ns THEN vs
    ELSE Instruction_evaluate(ns[node].state, ls, remove_all(vs, ns[node].outputs))

\* The recursion budget of one invalidation pass: more than any pass of the
\* code needs (a pass that exhausts it is reported as not done).
PassFuel == 2 * MaxNodes + 4

\* Mutant of dependants: the visited set is not consulted.
dependants_unvisited(ls, node, rest, visited, ord) ==
    LET Fresh(m) ==
            /\ \E i \in DOMAIN ls : ls[i].node = node /\ i.node = m
            /\ m \notin Range(rest)
    IN SelectSeq(ord, Fresh)

\* The nodes one iteration of the loop of Graph::invalidate pushes after
\* evaluating node, in the link table's iteration order.
dependants(ls, node, rest, visited, ord) ==
    LET Fresh(m) ==
            /\ \E i \in DOMAIN ls : ls[i].node = node /\ i.node = m
            /\ m \notin visited
            /\ m \notin Range(rest)
    IN SelectSeq(ord, Fresh)

\* What the callback left in the cache for the outputs of a node.
produced(ns, vs, node) ==
    [o \in Range(ns[node].outputs) \cap DOMAIN vs |-> vs[o]]

\* Mutant of invalidate_loop: pending is a stack, the node pushed last is
\* evaluated next.
RECURSIVE invalidate_loop_lifo(_, _, _, _, _, _, _, _)
invalidate_loop_lifo(ns, ls, vs, pending, visited, evals, ord, fuel) ==
    IF pending = <<>> THEN [values |-> vs, evals |-> evals, done |-> TRUE]
    ELSE IF fuel = 0 THEN [values |-> vs, evals |-> evals, done |-> FALSE]
    ELSE LET node == pending[Len(pending)]
             rest == SubSeq(pending, 1, Len(pending) - 1)
             evaluated == evaluate(ns, ls, vs, node)
         IN invalidate_loop_lifo(
                ns, ls,
                evaluated,
                rest \o dependants(ls, node, rest, visited, ord),
                visited \cup {node},
                IF node \in DOMAIN ns
                THEN Append(evals, [node |-> node, produced |-> produced(ns, evaluated, node)])
                ELSE evals,
                ord, fuel - 1)

\* The while loop of Graph::invalidate. evals lists the runs of the callback
\* in order: the registered node and what the run produced for its outputs.
RECURSIVE invalidate_loop(_, _, _, _, _, _, _, _)
invalidate_loop(ns, ls, vs, pending, visited, evals, ord, fuel) ==
    IF pending = <<>> THEN [values |-> vs, evals |-> evals, done |-> TRUE]
    ELSE IF fuel = 0 THEN [values |-> vs, evals |-> evals, done |-> FALSE]
    ELSE LET node == Head(pending)
             rest == Tail(pending)
             evaluated == evaluate(ns, ls, vs, node)
         IN invalidate_loop(
                ns, ls,
                evaluated,
                rest \o dependants(ls, node, rest, visited, ord),
                visited \cup {node},
                IF node \in DOMAIN ns
                THEN Append(evals, [node |-> node, produced |-> produced(ns, evaluated, node)])
                ELSE evals,
                ord, fuel - 1)

\* Mutant of invalidate: the origin is evaluated and nothing is propagated.
invalidate_origin_only(ns, ls, vs, node, ord) ==
    [values |-> evaluate(ns, ls, vs, node),
     evals |-> IF node \in DOMAIN ns
               THEN <<[node |-> node,
                       produced |-> produced(ns, evaluate(ns, ls, vs, node), node)]>>
               ELSE <<>>,
     done |-> TRUE]

\* Mutant of invalidate: the pass starts from the node and from every other
\* registered node.
invalidate_every_node(ns, ls, vs, node, ord) ==
    invalidate_loop(ns, ls, vs,
                    <<node>> \o SelectSeq([k \in 1..MaxNodes |-> k - 1],
                                          LAMBDA m : m \in DOMAIN ns /\ m # node),
                    {}, <<>>, ord, PassFuel)

\* Graph::invalidate
invalidate(ns, ls, vs, node, ord) ==
    invalidate_loop(ns, ls, vs, <<node>>, {}, <<>>, ord, PassFuel)

\* State::is_root
is_root(state, ls) ==
    \A k \in DOMAIN state.inputs : state.inputs[k] \notin DOMAIN ls

\* Mutant of dependencies_inputs: a discovered node is recorded and not
\* queued, so the search stops at the direct predecessors.
RECURSIVE dependencies_inputs_direct(_, _, _, _)
dependencies_inputs_direct(ls, inputs, deps, pending) ==
    IF inputs = <<>> THEN [dependencies |-> deps, pending |-> pending]
    ELSE IF Head(inputs) \notin DOMAIN ls
    THEN dependencies_inputs_direct(ls, Tail(inputs), deps, pending)
    ELSE dependencies_inputs_direct(ls, Tail(inputs),
                                    deps \cup {ls[Head(inputs)].node}, pending)

\* The for loop of Graph::dependencies over the inputs of the popped node.
RECURSIVE dependencies_inputs(_, _, _, _)
dependencies_inputs(ls, inputs, deps, pending) ==
    IF inputs = <<>> THEN [dependencies |-> deps, pending |-> pending]
    ELSE IF Head(inputs) \notin DOMAIN ls
    THEN dependencies_inputs(ls, Tail(inputs), deps, pending)
    ELSE IF /\ ls[Head(inputs)].node \notin deps
            /\ ls[Head(inputs)].node \notin Range(pending)
    THEN dependencies_inputs(ls, Tail(inputs),
                             deps \cup {ls[Head(inputs)].node},
                             Append(pending, ls[Head(inputs)].node))
    ELSE dependencies_inputs(ls, Tail(inputs), deps, pending)

\* The while loop of Graph::dependencies.
RECURSIVE dependencies_loop(_, _, _, _)
dependencies_loop(ns, ls, deps, pending) ==
    IF pending = <<>> THEN deps
    ELSE IF Head(pending) \notin DOMAIN ns
    THEN dependencies_loop(ns, ls, deps, Tail(pending))
    ELSE LET r == dependencies_inputs(ls, ns[Head(pending)].inputs, deps, Tail(pending))
         IN dependencies_loop(ns, ls, r.dependencies, r.pending)

\* Graph::dependencies
dependencies(ns, ls, node) == dependencies_loop(ns, ls, {}, <<node>>)

\* The find of Graph::schedule: the first input of the candidate that is
\* linked to an output of the node just scheduled, as <<input>>, or <<>>.
RECURSIVE find_connection(_, _, _)
find_connection(inputs, ls, outputs) ==
    IF inputs = <<>> THEN <<>>
    ELSE IF Head(inputs) \in DOMAIN ls /\ ls[Head(inputs)] \in Range(outputs)
    THEN <<Head(inputs)>>
    ELSE find_connection(Tail(inputs), ls, outputs)

\* Mutant of schedule_candidates: a candidate is pushed when a connection
\* of it is removed, whether or not it has other linked inputs left.
RECURSIVE schedule_candidates_eager(_, _, _, _, _)
schedule_candidates_eager(ns, cur, candidates, ls, pending) ==
    IF candidates = <<>> THEN [links |-> ls, pending |-> pending]
    ELSE IF Head(candidates) \notin DOMAIN ns
    THEN schedule_candidates_eager(ns, cur, Tail(candidates), ls, pending)
    ELSE LET candidate == Head(candidates)
             connection == find_connection(ns[candidate].inputs, ls, ns[cur].outputs)
         IN IF connection = <<>>
            THEN schedule_candidates_eager(ns, cur, Tail(candidates), ls, pending)
            ELSE schedule_candidates_eager(ns, cur, Tail(candidates),
                                           remove(ls, connection[1]),
                                           Append(pending, candidate))

\* The for loop of Graph::schedule over the candidates, in the iteration
\* order of the dependency set; ls is the working copy of the link table.
RECURSIVE schedule_candidates(_, _, _, _, _)
schedule_candidates(ns, cur, candidates, ls, pending) ==
    IF candidates = <<>> THEN [links |-> ls, pending |-> pending]
    ELSE IF Head(candidates) \notin DOMAIN ns
    THEN schedule_candidates(ns, cur, Tail(candidates), ls, pending)
    ELSE LET candidate == Head(candidates)
             connection == find_connection(ns[candidate].inputs, ls, ns[cur].outputs)
         IN IF connection = <<>>
            THEN schedule_candidates(ns, cur, Tail(candidates), ls, pending)
            ELSE schedule_candidates(
                    ns, cur, Tail(candidates),
                    remove(ls, connection[1]),
                    IF is_root(ns[candidate], remove(ls, connection[1]))
                    THEN Append(pending, candidate)
                    ELSE pending)

\* The while loop of Graph::schedule: pending is a stack, popped at its end.
RECURSIVE schedule_loop(_, _, _, _, _)
schedule_loop(ns, ls, candidates, pending, sched) ==
    IF pending = <<>> THEN sched
    ELSE LET cur == pending[Len(pending)]
             rest == SubSeq(pending, 1, Len(pending) - 1)
         IN IF cur \notin DOMAIN ns
            THEN schedule_loop(ns, ls, candidates, rest, sched)
            ELSE LET r == schedule_candidates(ns, cur, candidates, ls, rest)
                 IN schedule_loop(ns, r.links, candidates, r.pending, Append(sched, cur))

\* The initial ready stack of Graph::schedule: the dependencies that are
\* registered and roots, in the iteration order of the dependency set.
schedule_roots(ns, ls, deps, ord) ==
    LET Ready(m) == m \in deps /\ m \in DOMAIN ns /\ is_root(ns[m], ls)
    IN SelectSeq(ord, Ready)

\* Mutant of schedule: the node asked for is appended only when registered.
schedule_registered(ns, ls, node, ord) ==
    LET deps == dependencies(ns, ls, node)
        InDeps(m) == m \in deps
        planned == schedule_loop(ns, ls, SelectSeq(ord, InDeps),
                                 schedule_roots(ns, ls, deps, ord), <<>>)
    IN IF node \in DOMAIN ns THEN Append(planned, node) ELSE planned

\* Graph::schedule
schedule(ns, ls, node, ord) ==
    LET deps == dependencies(ns, ls, node)
        InDeps(m) == m \in deps
    IN Append(schedule_loop(ns, ls, SelectSeq(ord, InDeps),
                            schedule_roots(ns, ls, deps, ord), <<>>),
              node)

\* The working copy of the link table when the while loop of Graph::schedule
\* ends: the clone of the link table less the connections the loop removed.
RECURSIVE schedule_loop_links(_, _, _, _)
schedule_loop_links(ns, ls, candidates, pending) ==
    IF pending = <<>> THEN ls
    ELSE LET cur == pending[Len(pending)]
             rest == SubSeq(pending, 1, Len(pending) - 1)
         IN IF cur \notin DOMAIN ns
            THEN schedule_loop_links(ns, ls, candidates, rest)
            ELSE LET r == schedule_candidates(ns, cur, candidates, ls, rest)
                 IN schedule_loop_links(ns, r.links, candidates, r.pending)

schedule_links(ns, ls, node, ord) ==
    LET deps == dependencies(ns, ls, node)
        InDeps(m) == m \in deps
    IN schedule_loop_links(ns, ls, SelectSeq(ord, InDeps), schedule_roots(ns, ls, deps, ord))

\* ------------------------------------------------------- graph operations
\* A Graph is the record [nodes, links, values, current, order]. An operation
\* returns the graph it leaves and what its invalidation pass did:
\* ran (a pass was run), evals and done as invalidate_loop reports them;
\* link is None, or for Graph::link Some of the input, the output, and
\* previous: what HashMap::insert returned, the output it replaced if any.

\* Graph::new
Graph_new == [nodes |-> <<>>, links |-> <<>>, values |-> <<>>, current |-> 0, order |-> <<>>]

\* The State a builder of the given kind commits with finish.
State(node, kind, n, position) ==
    [id |-> node,
     state |-> Instruction(node, kind, n),
     position |-> position,
     inputs |-> builder_inputs(node, kind),
     outputs |-> builder_outputs(node, kind)]

\* Mutant of build: the id is handed out and not consumed.
build_unconsumed(g) == g

\* Graph::build: the builder is bound to the id current, which is consumed.
build(g) == [g EXCEPT !.current = @ + 1]

\* Mutant of finish: the registry is started afresh with the new node.
finish_fresh_registry(g, node, kind, n, position, ord) ==
    LET ns == insert(<<>>, node, State(node, kind, n, position))
        p == invalidate(ns, g.links, g.values, node, ord)
    IN [graph |-> [g EXCEPT !.nodes = ns, !.order = Append(@, node), !.values = p.values],
        ran |-> TRUE, evals |-> p.evals, done |-> p.done, link |-> None]

\* Mutant of finish: the node is registered and not evaluated.
finish_unevaluated(g, node, kind, n, position, ord) ==
    [graph |-> [g EXCEPT !.nodes = insert(g.nodes, node, State(node, kind, n, position)),
                         !.order = Append(@, node)],
     ran |-> TRUE, evals |-> <<>>, done |-> TRUE, link |-> None]

\* Builder::finish on the builder bound to node, on the graph build left.
finish(g, node, kind, n, position, ord) ==
    LET ns == insert(g.nodes, node, State(node, kind, n, position))
        p == invalidate(ns, g.links, g.values, node, ord)
    IN [graph |-> [g EXCEPT !.nodes = ns, !.order = Append(@, node), !.values = p.values],
        ran |-> TRUE, evals |-> p.evals, done |-> p.done, link |-> None]

\* Graph::push: build, declare the ports, finish.
push(g, kind, n, position, ord) == finish(build(g), g.current, kind, n, position, ord)

\* Mutant of link: an input that already has a link keeps it.
link_keep_first(g, i, o, ord) ==
    LET ls == IF i \in DOMAIN g.links THEN g.links ELSE insert(g.links, i, o)
        p == invalidate(g.nodes, ls, g.values, i.node, ord)
    IN [graph |-> [g EXCEPT !.links = ls, !.values = p.values],
        ran |-> TRUE, evals |-> p.evals, done |-> p.done,
        link |-> Some([input |-> i, output |-> o,
                       previous |-> IF i \in DOMAIN g.links THEN Some(g.links[i]) ELSE None])]

\* Mutant of link: an output feeds one input at a time, the other inputs
\* linked to it lose their link.
link_exclusive(g, i, o, ord) ==
    LET kept == {j \in DOMAIN g.links : g.links[j] # o}
        ls == insert([j \in kept |-> g.links[j]], i, o)
        p == invalidate(g.nodes, ls, g.values, i.node, ord)
    IN [graph |-> [g EXCEPT !.links = ls, !.values = p.values],
        ran |-> TRUE, evals |-> p.evals, done |-> p.done,
        link |-> Some([input |-> i, output |-> o,
                       previous |-> IF i \in DOMAIN g.links THEN Some(g.links[i]) ELSE None])]

\* Mutant of link: a link that closes a cycle is refused.
link_acyclic(g, i, o, ord) ==
    LET ls == insert(g.links, i, o)
        p == invalidate(g.nodes, ls, g.values, i.node, ord)
        previous == IF i \in DOMAIN g.links THEN Some(g.links[i]) ELSE None
    IN IF <<i.node, i.node>> \in Closure({<<ls[j].node, j.node>> : j \in DOMAIN ls})
       THEN [graph |-> g, ran |-> FALSE, evals |-> <<>>, done |-> TRUE,
             link |-> Some([input |-> i, output |-> o, previous |-> previous])]
       ELSE [graph |-> [g EXCEPT !.links = ls, !.values = p.values],
             ran |-> TRUE, evals |-> p.evals, done |-> p.done,
             link |-> Some([input |-> i, output |-> o, previous |-> previous])]

\* Graph::link
link(g, i, o, ord) ==
    LET ls == insert(g.links, i, o)
        p == invalidate(g.nodes, ls, g.values, i.node, ord)
    IN [graph |-> [g EXCEPT !.links = ls, !.values = p.values],
        ran |-> TRUE, evals |-> p.evals, done |-> p.done,
        link |-> Some([input |-> i, output |-> o,
                       previous |-> IF i \in DOMAIN g.links THEN Some(g.links[i]) ELSE None])]

\* Mutant of move_to: the move is followed by a pass rooted at the node.
move_to_invalidate(g, node, position, ord) ==
    LET ns == IF node \in DOMAIN g.nodes
              THEN [g.nodes EXCEPT ![node].position =
                                      Point(round(position[1]), round(position[2]))]
              ELSE g.nodes
        p == invalidate(ns, g.links, g.values, node, ord)
    IN [graph |-> [g EXCEPT !.nodes = ns, !.values = p.values],
        ran |-> TRUE, evals |-> p.evals, done |-> p.done, link |-> None]

\* Graph::move_to; it runs no pass, ord is not read.
move_to(g, node, position, ord) ==
    [graph |-> IF node \in DOMAIN g.nodes
               THEN [g EXCEPT !.nodes[node].position =
                                 Point(round(position[1]), round(position[2]))]
               ELSE g,
     ran |-> FALSE, evals |-> <<>>, done |-> TRUE, link |-> None]

\* Graph::dependencies as a call on the graph: &self, the graph it leaves
\* is the graph it was given.
Graph_dependencies(g, node) ==
    [graph |-> g, dependencies |-> dependencies(g.nodes, g.links, node), schedule |-> <<>>]

\* Mutant of Graph_schedule: the planned nodes lose their cache entries.
Graph_schedule_clearing(g, node, ord) ==
    [graph |-> [g EXCEPT !.values =
                   [o \in {x \in DOMAIN g.values :
                              x.node \notin Range(schedule(g.nodes, g.links, node, ord))}
                      |-> g.values[o]]],
     dependencies |-> dependencies(g.nodes, g.links, node),
     schedule |-> schedule(g.nodes, g.links, node, ord)]

\* Mutant of Graph_schedule: the connections are removed from the link table
\* of the graph, not from a clone.
Graph_schedule_in_place(g, node, ord) ==
    [graph |-> [g EXCEPT !.links = schedule_links(g.nodes, g.links, node, ord)],
     dependencies |-> dependencies(g.nodes, g.links, node),
     schedule |-> schedule(g.nodes, g.links, node, ord)]

\* Graph::schedule as a call on the graph: &self, and the loop works on a
\* clone of the link table.
Graph_schedule(g, node, ord) ==
    [graph |-> g,
     dependencies |-> dependencies(g.nodes, g.links, node),
     schedule |-> schedule(g.nodes, g.links, node, ord)]

\* The closure Example::update passes to Graph::update on NumberChanged: a
\* Number takes the typed number, any other instruction is left alone.
number_changed(state, n) ==
    IF state.kind = "Number" THEN [state EXCEPT !.n = n] ELSE state

\* Graph::get
Graph_get(ns, node) == IF node \in DOMAIN ns THEN Some(ns[node].state) ELSE None

\* Mutant of update: the node is not looked up first; the pass runs for an
\* id that is not registered too.
update_unchecked(g, node, n, ord) ==
    LET ns == IF node \in DOMAIN g.nodes
              THEN [g.nodes EXCEPT ![node].state = number_changed(@, n)]
              ELSE g.nodes
        p == invalidate(ns, g.links, g.values, node, ord)
    IN [graph |-> [g EXCEPT !.nodes = ns, !.values = p.values],
        ran |-> TRUE, evals |-> p.evals, done |-> p.done, link |-> None]

\* Mutant of update: the closure is applied and no pass follows.
update_without_pass(g, node, n, ord) ==
    IF node \notin DOMAIN g.nodes
    THEN [graph |-> g, ran |-> FALSE, evals |-> <<>>, done |-> TRUE, link |-> None]
    ELSE [graph |-> [g EXCEPT !.nodes[node].state = number_changed(@, n)],
          ran |-> TRUE, evals |-> <<>>, done |-> TRUE, link |-> None]

\* Mutant of update: the pass runs before the closure is applied.
update_after_pass(g, node, n, ord) ==
    IF node \notin DOMAIN g.nodes
    THEN [graph |-> g, ran |-> FALSE, evals |-> <<>>, done |-> TRUE, link |-> None]
    ELSE LET p == invalidate(g.nodes, g.links, g.values, node, ord)
         IN [graph |-> [g EXCEPT !.nodes[node].state = number_changed(@, n),
                                 !.values = p.values],
             ran |-> TRUE, evals |-> p.evals, done |-> p.done, link |-> None]

\* Graph::update with that closure
update(g, node, n, ord) ==
    IF node \notin DOMAIN g.nodes
    THEN [graph |-> g, ran |-> FALSE, evals |-> <<>>, done |-> TRUE, link |-> None]
    ELSE LET ns == [g.nodes EXCEPT ![node].state = number_changed(@, n)]
             p == invalidate(ns, g.links, g.values, node, ord)
         IN [graph |-> [g EXCEPT !.nodes = ns, !.values = p.values],
             ran |-> TRUE, evals |-> p.evals, done |-> p.done, link |-> None]

\* ---------------------------------------------------------------- actions
\* The graph the variables hold.
Graph == [nodes |-> nodes, links |-> links, values |-> values,
          current |-> current, order |-> order]

\* The nodes that own a linked input.
Linked(ls) == {i.node : i \in DOMAIN ls}

\* The nodes a pass rooted at node can push: the owners of the inputs that
\* the links lead to from node, registered or not. The iteration order of
\* the link table matters to a pass for these nodes only.
Pushed(ls, node) ==
    {e[2] : e \in {d \in Closure({<<ls[i].node, i.node>> : i \in DOMAIN ls}) : d[1] = node}}

\* Every cached value is within the bound of the model.
WithinBounds(vs) ==
    \A o \in DOMAIN vs : IF vs[o] = None THEN TRUE ELSE vs[o][1] <= MaxValue

NoQuery == [op |-> "none", node |-> -1, dependencies |-> {}, schedule |-> <<>>]

NoCall == [op |-> "new", node |-> -1, pass |-> FALSE, changed |-> FALSE,
           evals |-> <<>>, done |-> TRUE, link |-> None]

NoHandles == [inputs |-> {}, outputs |-> {}, dropped |-> {}]

\* The zoom factor is counted in eighths: 1.0, 0.25 and 4.0.
ZoomOne == 8
ZoomMin == 2
ZoomMax == 32

\* Interaction::None
Interaction_None == [kind |-> "None"]

\* The editor over a new graph: the interaction and zoom cells of Graph::new,
\* the Internal state of the widget (the connectors whose bounds are known,
\* the keyboard modifiers), no on_link handler; published and redraw are
\* what the last call of update handed to the shell.
Editor_new ==
    [interaction |-> Interaction_None,
     zoom |-> ZoomOne,
     inputs |-> {}, outputs |-> {},
     translation |-> <<0, 0>>,
     size |-> <<>>,
     modifiers |-> [command |-> FALSE, shift |-> FALSE],
     on_link |-> FALSE,
     event |-> [type |-> "None"],
     hovered |-> {},
     published |-> <<>>,
     redraw |-> FALSE]

\* No Typewriter is part of the view.
NoTypewriter == [animation |-> "None"]

\* The handles a builder of the given kind hands to its caller, added to
\* those already given out; dropped says the builder is dropped unfinished.
issue(handles, node, kind, dropped) ==
    [inputs |-> handles.inputs \cup Range(builder_inputs(node, kind)),
     outputs |-> handles.outputs \cup Range(builder_outputs(node, kind)),
     dropped |-> handles.dropped \cup (IF dropped THEN {node} ELSE {})]

\* The variables after a mutating call op rooted at node returned r.
Returned(op, node, r) ==
    /\ nodes' = r.graph.nodes
    /\ links' = r.graph.links
    /\ values' = r.graph.values
    /\ current' = r.graph.current
    /\ order' = r.graph.order
    /\ last' = [op |-> op, node |-> node, pass |-> r.ran,
                changed |-> (r.graph.nodes # nodes \/ r.graph.links # links),
                evals |-> r.evals, done |-> r.done, link |-> r.link]
    /\ query' = NoQuery
    /\ UNCHANGED <<editor, typewriter>>

Init ==
    /\ nodes = Graph_new.nodes
    /\ links = Graph_new.links
    /\ values = Graph_new.values
    /\ current = Graph_new.current
    /\ order = Graph_new.order
    /\ issued = NoHandles
    /\ last = NoCall
    /\ query = NoQuery
    /\ editor = Editor_new
    /\ typewriter = NoTypewriter

\* Graph::build, the port declarations of Example::new, and Builder::finish.
Finish ==
    /\ current < MaxNodes
    /\ \E kind \in Kinds :
       \E n \in (IF kind = "Number" THEN Numbers ELSE {0}) :
       \E position \in Spots :
       \E ord \in HashOrders(Pushed(links, current)) :
       \E r \in {push(Graph, kind, n, position, ord)} :
          /\ Cardinality(issued.inputs) + Len(builder_inputs(current, kind)) <= MaxInputs
          /\ WithinBounds(r.graph.values)
          /\ Returned("finish", current, r)
          /\ issued' = issue(issued, current, kind, FALSE)

\* Graph::link on handles the builders gave out.
Link ==
    \E i \in issued.inputs : \E o \in issued.outputs :
    \E ord \in HashOrders(Pushed(insert(links, i, o), i.node)) :
    \E r \in {link(Graph, i, o, ord)} :
        /\ WithinBounds(r.graph.values)
        /\ Returned("link", i.node, r)
        /\ UNCHANGED issued

\* Graph::update on NumberChanged, for any node id and typed number.
Update ==
    \E node \in 0..(MaxNodes - 1) : \E n \in Numbers :
    \E ord \in HashOrders(Pushed(links, node)) :
    \E r \in {update(Graph, node, n, ord)} :
        /\ WithinBounds(r.graph.values)
        /\ Returned("update", node, r)
        /\ UNCHANGED issued

Next ==
    \/ Finish
    \/ Link
    \/ Update

Spec == Init /\ [][Next]_vars

\* ------------------------------------------------------- dropped builders
\* Graph::build, the port declarations, and the builder dropped without
\* finish: the id is consumed, the handles stay with the caller.
Drop ==
    /\ current < MaxNodes
    /\ Cardinality(issued.dropped) < MaxDropped
    /\ \E kind \in Kinds :
          /\ Cardinality(issued.inputs) + Len(builder_inputs(current, kind)) <= MaxInputs
          /\ Returned("drop", current,
                      [graph |-> build(Graph), ran |-> FALSE, evals |-> <<>>,
                       done |-> TRUE, link |-> None])
          /\ issued' = issue(issued, current, kind, TRUE)

\* Construction of a graph: builders finished or dropped, and links made on
\* the handles of both.
NextBuild ==
    \/ Finish
    \/ Drop
    \/ Link

SpecBuild == Init /\ [][NextBuild]_vars

\* ------------------------------------------------------ the example program
\* The numbers of the example: A holds 1, B holds 2, and the user types 5.
ExampleNumbers == {1, 2, 5}

\* Example::new: the nodes A, B, Add and Display, in this order.
Example_new ==
    push(push(push(push(Graph_new, "Number", 1, Point(20, 20), <<>>).graph,
                   "Number", 2, Point(20, 400), <<>>).graph,
              "Add", 0, Point(600, 200), <<>>).graph,
         "Display", 0, Point(600, 400), <<>>)

a_output == OutputId(0, "output")
b_output == OutputId(1, "output")
add_a == InputId(2, "a")
add_b == InputId(2, "b")
add_result == OutputId(2, "result")
display_value == InputId(3, "value")

\* The three links of the example, as input :> output.
ExampleLinks == (add_a :> a_output) @@ (add_b :> b_output) @@ (display_value :> add_result)

InitExample ==
    /\ nodes = Example_new.graph.nodes
    /\ links = Example_new.graph.links
    /\ values = Example_new.graph.values
    /\ current = Example_new.graph.current
    /\ order = Example_new.graph.order
    /\ issued = [inputs |-> {add_a, add_b, display_value},
                 outputs |-> {a_output, b_output, add_result},
                 dropped |-> {}]
    /\ last = [op |-> "finish", node |-> 3, pass |-> TRUE, changed |-> TRUE,
               evals |-> Example_new.evals, done |-> Example_new.done, link |-> None]
    /\ query = NoQuery
    /\ editor = Editor_new
    /\ typewriter = NoTypewriter

\* Message::GraphLinked carrying one of the three links of the example.
ExampleLink ==
    \E i \in DOMAIN ExampleLinks :
    \E ord \in HashOrders(Pushed(insert(links, i, ExampleLinks[i]), i.node)) :
    \E r \in {link(Graph, i, ExampleLinks[i], ord)} :
        /\ Returned("link", i.node, r)
        /\ UNCHANGED issued

\* Message::NumberChanged carrying a node of the example and a number.
ExampleUpdate ==
    \E node \in DOMAIN nodes : \E n \in ExampleNumbers :
    \E ord \in HashOrders(Pushed(links, node)) :
    \E r \in {update(Graph, node, n, ord)} :
        /\ Returned("update", node, r)
        /\ UNCHANGED issued

\* Where the user drops a dragged node: (10.5, -0.5).
Drops == {Point(21, -1)}

\* Message::NodeDragged carrying a node id, registered or not, and a point.
ExampleDrag ==
    \E node \in 0..Example_new.graph.current : \E position \in Drops :
    \E r \in {move_to(Graph, node, position, <<>>)} :
        /\ Returned("move_to", node, r)
        /\ UNCHANGED issued

NextExample ==
    \/ ExampleLink
    \/ ExampleUpdate
    \/ ExampleDrag

SpecExample == InitExample /\ [][NextExample]_vars

\* ------------------------------------------------------- the planning queries
\* A cast lists the builders of a graph in order: the kind of each, and
\* whether it was dropped without finish.
Casts ==
    {cast \in UNION {[1..len -> [kind : Kinds, dropped : BOOLEAN]] : len \in 0..MaxNodes} :
        /\ Cardinality({k \in DOMAIN cast : cast[k].dropped}) <= MaxDropped
        /\ Cardinality(UNION {Range(builder_inputs(k, cast[k].kind)) : k \in DOMAIN cast})
              <= MaxInputs}

\* The graph and the handles after the builders of a cast, no link made yet.
RECURSIVE built(_)
built(cast) ==
    IF cast = <<>> THEN [graph |-> Graph_new, handles |-> NoHandles]
    ELSE LET before == built(SubSeq(cast, 1, Len(cast) - 1))
             entry == cast[Len(cast)]
             node == before.graph.current
         IN [graph |-> IF entry.dropped
                       THEN build(before.graph)
                       ELSE push(before.graph, entry.kind, 1, Point(20, 20), <<>>).graph,
             handles |-> issue(before.handles, node, entry.kind, entry.dropped)]

\* The link tables that calls of Graph::link on the handles can leave.
LinkTables(handles) == UNION {[D -> handles.outputs] : D \in SUBSET handles.inputs}

\* The graph after one call of Graph::link for each entry of the table.
RECURSIVE linked(_, _)
linked(g, table) ==
    IF DOMAIN table = {} THEN g
    ELSE LET i == CHOOSE j \in DOMAIN table : TRUE
             ord == CHOOSE h \in HashOrders(Pushed(insert(g.links, i, table[i]), i.node)) : TRUE
         IN linked(link(g, i, table[i], ord).graph, remove(table, i))

InitQuery ==
    \E cast \in Casts : \E table \in LinkTables(built(cast).handles) :
        /\ nodes = linked(built(cast).graph, table).nodes
        /\ links = linked(built(cast).graph, table).links
        /\ values = linked(built(cast).graph, table).values
        /\ current = linked(built(cast).graph, table).current
        /\ order = linked(built(cast).graph, table).order
        /\ issued = built(cast).handles
        /\ last = NoCall
        /\ query = NoQuery
        /\ editor = Editor_new
        /\ typewriter = NoTypewriter

\* The variables after a query op for node returned r.
Asked(op, node, r) ==
    /\ nodes' = r.graph.nodes
    /\ links' = r.graph.links
    /\ values' = r.graph.values
    /\ current' = r.graph.current
    /\ order' = r.graph.order
    /\ query' = [op |-> op, node |-> node,
                 dependencies |-> r.dependencies, schedule |-> r.schedule]
    /\ UNCHANGED <<issued, last, editor, typewriter>>

\* Graph::dependencies, called by the application for any node id.
Dependencies ==
    \E node \in 0..MaxNodes :
    \E r \in {Graph_dependencies(Graph, node)} :
        Asked("dependencies", node, r)

\* Graph::schedule, called by the application for any node id.
Schedule ==
    \E node \in 0..MaxNodes :
    \E ord \in HashOrders(dependencies(nodes, links, node)) :
    \E r \in {Graph_schedule(Graph, node, ord)} :
        Asked("schedule", node, r)

NextQuery ==
    \/ Dependencies
    \/ Schedule

SpecQuery == InitQuery /\ [][NextQuery]_vars

\* -------------------------------------------------- every operation together
\* Graph::move_to for any node id.
MoveTo ==
    \E node \in 0..(MaxNodes - 1) : \E position \in Drops :
    \E r \in {move_to(Graph, node, position, <<>>)} :
        /\ Returned("move_to", node, r)
        /\ UNCHANGED issued

\* Every operation of the graph, on graphs of up to SmallNodes nodes.
NextAll ==
    \/ current < SmallNodes /\ Finish
    \/ Link
    \/ Update
    \/ MoveTo
    \/ Dependencies
    \/ Schedule

SpecAll == Init /\ [][NextAll]_vars

\* ------------------------------------------------------------ typed reads
\* Input<T> and Output<T> carry the type T of the port next to its id, and a
\* Value holds its content as dyn Any: Some of the content's type and the
\* content, or None. The example declares every port as u32; here ports of
\* two types meet.
TypeIds == {"u32", "f32"}

Input(id, type) == [id |-> id, type |-> type]
Output(id, type) == [id |-> id, type |-> type]

\* Value::new::<T>
Value_new(type, content) ==
    IF content = None THEN None ELSE Some([type |-> type, value |-> content[1]])

\* Mutant of downcast_ref: the content is returned whatever its type.
downcast_unchecked(any, type) == Some(any.value)

\* <dyn Any>::downcast_ref::<T>
downcast_ref(any, type) == IF any.type = type THEN Some(any.value) ELSE None

\* Data::get::<T> and Graph::input::<A> on a typed handle.
Data_get(ls, vs, handle) ==
    IF handle.id \notin DOMAIN ls THEN None
    ELSE IF ls[handle.id] \notin DOMAIN vs THEN None
    ELSE IF vs[ls[handle.id]] = None THEN None
    ELSE downcast_ref(vs[ls[handle.id]][1], handle.type)

\* Data::set_with::<T> on a typed handle.
Data_set_with(vs, handle, content) == insert(vs, handle.id, Value_new(handle.type, content))

\* The typed handles of the read model: two outputs and two inputs, one of
\* each type.
TypedOutputs == {Output(OutputId(0, "output"), "u32"), Output(OutputId(1, "output"), "f32")}
TypedInputs == {Input(InputId(2, "a"), "u32"), Input(InputId(2, "b"), "f32")}

\* What a callback can have left in the cache for an output: no entry, an
\* entry without a value, or a value of the output's type.
Contents == {<<>>, <<None>>, <<Some(1)>>, <<Some(2)>>}

RECURSIVE cached(_, _)
cached(outputs, choice) ==
    IF outputs = {} THEN <<>>
    ELSE LET o == CHOOSE h \in outputs : TRUE
             rest == cached(outputs \ {o}, choice)
         IN IF choice[o] = <<>> THEN rest ELSE Data_set_with(rest, o, choice[o][1])

NoRead == [op |-> "none", input |-> Input(InputId(-1, ""), ""), result |-> None]

\* A graph whose callbacks left the cache in any of these ways; no link yet.
InitRead ==
    \E choice \in [TypedOutputs -> Contents] :
        /\ nodes = Graph_new.nodes
        /\ links = Graph_new.links
        /\ values = cached(TypedOutputs, choice)
        /\ current = 3
        /\ order = Graph_new.order
        /\ issued = [inputs |-> {h.id : h \in TypedInputs},
                     outputs |-> {h.id : h \in TypedOutputs},
                     dropped |-> {}]
        /\ last = NoCall
        /\ query = NoRead
        /\ editor = Editor_new
        /\ typewriter = NoTypewriter

\* Graph::link on a Link the widget made from any input and any output: the
\* ids alone are linked.
ReadLink ==
    \E i \in TypedInputs : \E o \in TypedOutputs :
    \E r \in {link(Graph, i.id, o.id, <<>>)} :
        /\ nodes' = r.graph.nodes
        /\ links' = r.graph.links
        /\ values' = r.graph.values
        /\ current' = r.graph.current
        /\ order' = r.graph.order
        /\ last' = [op |-> "link", node |-> i.id.node, pass |-> r.ran, changed |-> TRUE,
                    evals |-> r.evals, done |-> r.done, link |-> r.link]
        /\ query' = NoRead
        /\ UNCHANGED <<issued, editor, typewriter>>

\* Graph::input on a typed handle.
Read ==
    /\ \E i \in TypedInputs :
          query' = [op |-> "get", input |-> i, result |-> Data_get(links, values, i)]
    /\ UNCHANGED <<nodes, links, values, current, order, issued, last, editor, typewriter>>

NextRead ==
    \/ ReadLink
    \/ Read

SpecRead == InitRead /\ [][NextRead]_vars

\* ------------------------------------------------------ declared port names
\* The names a caller gives to the two inputs and to the two outputs it
\* declares on the builder of an Add node; it may give one name twice.
InputNames == {"a", "b"}
OutputNames == {"result", "total"}

\* The Builder that Graph::build returns, bound to the id current.
Builder(g) == [node |-> g.current, inputs |-> <<>>, outputs |-> <<>>]

\* Mutant of Builder_input: a name declared before is replaced by another.
Builder_input_unique(b, name) ==
    LET id == IF InputId(b.node, name) \in Range(b.inputs)
              THEN InputId(b.node, "duplicate")
              ELSE InputId(b.node, name)
    IN [builder |-> [b EXCEPT !.inputs = Append(@, id)], handle |-> id]

\* Builder::input: the id is pushed on the list and returned as the handle.
Builder_input(b, name) ==
    [builder |-> [b EXCEPT !.inputs = Append(@, InputId(b.node, name))],
     handle |-> InputId(b.node, name)]

\* Builder::output
Builder_output(b, name) ==
    [builder |-> [b EXCEPT !.outputs = Append(@, OutputId(b.node, name))],
     handle |-> OutputId(b.node, name)]

\* Builder::finish with the ports declared on the builder, on the graph
\* build left.
Builder_finish(g, b, state, position, ord) ==
    LET ns == insert(g.nodes, b.node,
                     [id |-> b.node, state |-> state, position |-> position,
                      inputs |-> b.inputs, outputs |-> b.outputs])
        p == invalidate(ns, g.links, g.values, b.node, ord)
    IN [graph |-> [g EXCEPT !.nodes = ns, !.order = Append(@, b.node), !.values = p.values],
        ran |-> TRUE, evals |-> p.evals, done |-> p.done, link |-> None]

\* A graph with the Number node of Example::new; no ports declared by name
\* choice yet. declared records, for a node, the names the caller gave and
\* the handles it received, in the order of the calls.
InitPorts ==
    /\ nodes = push(Graph_new, "Number", 1, Point(20, 20), <<>>).graph.nodes
    /\ links = <<>>
    /\ values = push(Graph_new, "Number", 1, Point(20, 20), <<>>).graph.values
    /\ current = 1
    /\ order = <<0>>
    /\ issued = [inputs |-> {}, outputs |-> {OutputId(0, "output")}, dropped |-> {},
                 declared |-> <<>>]
    /\ last = [op |-> "finish", node |-> 0, pass |-> TRUE, changed |-> TRUE,
               evals |-> push(Graph_new, "Number", 1, Point(20, 20), <<>>).evals,
               done |-> TRUE, link |-> None]
    /\ query = NoQuery
    /\ editor = Editor_new
    /\ typewriter = NoTypewriter

\* An Add node built with two input and two output declarations under any
\* names: the Instruction keeps both input handles and the first output
\* handle, the caller keeps all four.
DeclareAdd ==
    /\ current = 1
    /\ \E x \in InputNames : \E y \in InputNames :
       \E z \in OutputNames : \E w \in OutputNames :
       \E position \in Spots :
       \E ord \in HashOrders(Pushed(links, current)) :
          LET a == Builder_input(Builder(Graph), x)
              b == Builder_input(a.builder, y)
              first == Builder_output(b.builder, z)
              second == Builder_output(first.builder, w)
              state == [kind |-> "Add", a |-> a.handle, b |-> b.handle,
                        output |-> first.handle]
          IN \E r \in {Builder_finish(build(Graph), second.builder, state, position, ord)} :
                /\ Returned("finish", current, r)
                /\ issued' = [issued EXCEPT
                       !.inputs = @ \cup {a.handle, b.handle},
                       !.outputs = @ \cup {first.handle, second.handle},
                       !.declared = insert(@, current,
                           [inputs |-> <<x, y>>, outputs |-> <<z, w>>,
                            input_handles |-> <<a.handle, b.handle>>,
                            output_handles |-> <<first.handle, second.handle>>])]

\* A Display node built as Example::new builds it.
DeclareDisplay ==
    /\ current = 2
    /\ \E position \in Spots :
       \E ord \in HashOrders(Pushed(links, current)) :
          LET value == Builder_input(Builder(Graph), "value")
              state == [kind |-> "Display", input |-> value.handle]
          IN \E r \in {Builder_finish(build(Graph), value.builder, state, position, ord)} :
                /\ Returned("finish", current, r)
                /\ issued' = [issued EXCEPT !.inputs = @ \cup {value.handle}]

NextPorts ==
    \/ DeclareAdd
    \/ DeclareDisplay
    \/ Link
    \/ Update

SpecPorts == InitPorts /\ [][NextPorts]_vars

\* --------------------------------------------------- passes on four nodes
\* A graph of a Number, an Add and two Displays, pushed in this order: four
\* inputs and two outputs, so that a pass can reach a node two links away of
\* its root while another node one link away is pending.
Pass_new ==
    push(push(push(push(Graph_new, "Number", 1, Point(20, 20), <<>>).graph,
                   "Add", 0, Point(600, 200), <<>>).graph,
              "Display", 0, Point(600, 400), <<>>).graph,
         "Display", 0, Point(600, 600), <<>>)

InitPass ==
    /\ nodes = Pass_new.graph.nodes
    /\ links = Pass_new.graph.links
    /\ values = Pass_new.graph.values
    /\ current = Pass_new.graph.current
    /\ order = Pass_new.graph.order
    /\ issued = issue(issue(issue(issue(NoHandles, 0, "Number", FALSE),
                                 1, "Add", FALSE), 2, "Display", FALSE),
                       3, "Display", FALSE)
    /\ last = [op |-> "finish", node |-> 3, pass |-> TRUE, changed |-> TRUE,
               evals |-> Pass_new.evals, done |-> Pass_new.done, link |-> None]
    /\ query = NoQuery
    /\ editor = Editor_new
    /\ typewriter = NoTypewriter

\* Graph::update on NumberChanged, for a node of the graph or the next id.
PassUpdate ==
    \E node \in 0..current : \E n \in Numbers :
    \E ord \in HashOrders(Pushed(links, node)) :
    \E r \in {update(Graph, node, n, ord)} :
        /\ WithinBounds(r.graph.values)
        /\ Returned("update", node, r)
        /\ UNCHANGED issued

NextPass ==
    \/ Link
    \/ PassUpdate

SpecPass == InitPass /\ [][NextPass]_vars

\* ------------------------------------------------- links made in any order
\* A graph of a Number and three Adds, pushed in this order, with no links:
\* six inputs and four outputs.
Order_new ==
    push(push(push(push(Graph_new, "Number", 1, Point(20, 20), <<>>).graph,
                   "Add", 0, Point(600, 200), <<>>).graph,
              "Add", 0, Point(600, 400), <<>>).graph,
         "Add", 0, Point(600, 600), <<>>)

InitOrder ==
    /\ nodes = Order_new.graph.nodes
    /\ links = Order_new.graph.links
    /\ values = Order_new.graph.values
    /\ current = Order_new.graph.current
    /\ order = Order_new.graph.order
    /\ issued = issue(issue(issue(issue(NoHandles, 0, "Number", FALSE),
                                 1, "Add", FALSE), 2, "Add", FALSE),
                       3, "Add", FALSE)
    /\ last = [op |-> "finish", node |-> 3, pass |-> TRUE, changed |-> TRUE,
               evals |-> Order_new.evals, done |-> Order_new.done, link |-> None]
    /\ query = NoQuery
    /\ editor = Editor_new
    /\ typewriter = NoTypewriter

\* Graph::link on an input that has no link yet, to an output that closes
\* no cycle: the calls that install a set of links one by one, in any order.
OrderLink ==
    \E i \in issued.inputs \ DOMAIN links : \E o \in issued.outputs :
    \E ord \in HashOrders(Pushed(insert(links, i, o), i.node)) :
    \E r \in {link(Graph, i, o, ord)} :
        /\ i.node \notin Pushed(insert(links, i, o), i.node)
        /\ WithinBounds(r.graph.values)
        /\ Returned("link", i.node, r)
        /\ UNCHANGED issued

NextOrder == OrderLink

SpecOrder == InitOrder /\ [][NextOrder]_vars

\* ------------------------------------------------------------ the editor
\* NodeEditor::update. The geometry of a call (where the cursor is, which
\* nodes and which connector it is over, which child captured the event) is
\* an input of the call, the record at:
\*   external  : cursor_external.position(), None or Some(point)
\*   internal  : cursor.position() after the inverse transformation, None
\*               when the cursor is not over the editor
\*   hovered   : the registered nodes whose bounds the cursor is over
\*   connector : the connector of the topmost hovered node that the cursor is
\*               over, None or Some(connector)
\*   changed   : the connectors whose bounds changed since the last redraw
\*   captured  : shell.is_event_captured() after the children's update
\*   direction : Direction::detect on the topmost hovered node
\*   nearest   : the connector of the hovered node nearest to the cursor
\* on_link says whether the view gives the NodeEditor an on_link handler.
\* A Vector of the translation is counted in eighths of the unit of a Point.
ConnectorKind_Input(i) == [kind |-> "Input", id |-> i]
ConnectorKind_Output(o) == [kind |-> "Output", id |-> o]

Interaction_Connecting(connector) == [kind |-> "Connecting", connector |-> connector]
Interaction_Panning(from, to) == [kind |-> "Panning", from |-> from, to |-> to]
Interaction_Resizing(node, original, direction, from) ==
    [kind |-> "Resizing", node |-> node, original |-> original,
     direction |-> direction, from |-> from]

Directions == {"Horizontal", "Vertical", "Diagonal"}

\* Link { input, output }
Link_new(i, o) == [input |-> i, output |-> o]

Vector_add(a, b) == <<a[1] + b[1], a[2] + b[2]>>
Vector_sub(a, b) == <<a[1] - b[1], a[2] - b[2]>>
Vector_scale(a, k) == <<a[1] * k, a[2] * k>>

\* f32::clamp and f32::max
clamp(v, lo, hi) == IF v < lo THEN lo ELSE IF v > hi THEN hi ELSE v
max(a, b) == IF a >= b THEN a ELSE b

\* State::size; Graph::build gives every node the size 200 x 200.
Size_default == <<400, 400>>
size_get(ed, node) == IF node \in DOMAIN ed.size THEN ed.size[node] ELSE Size_default

\* The smallest width and height a resize leaves: 50 and 10.
MinWidth == 100
MinHeight == 20

\* The node a left press lands on: the last node of the stacking order that
\* is registered and under the cursor, as a set of at most one position.
node_hovered(ns, ord, at) ==
    LET over == {k \in DOMAIN ord : ord[k] \in DOMAIN ns /\ ord[k] \in at.hovered}
    IN IF over = {} THEN {} ELSE {CHOOSE k \in over : \A j \in over : j <= k}

\* Mutant of to_front: the node is pushed and its old entry stays.
to_front_keeping(ord, k) == Append(ord, ord[k])

\* Vec::remove(order_index) followed by push(node).
to_front(ord, k) ==
    Append(SubSeq(ord, 1, k - 1) \o SubSeq(ord, k + 1, Len(ord)), ord[k])

\* NodeEditor::connection: the node it takes as hovered is the first
\* registered node under the cursor (nodes are registered in the order of
\* their ids), and the candidates are the connectors of that node of the
\* other kind than the pressed one whose bounds are known.
connection_candidates(ed, ns, at, connector) ==
    LET over == at.hovered \cap DOMAIN ns
        first == CHOOSE n \in over : \A m \in over : n <= m
    IN IF at.internal = None THEN {}
       ELSE IF connector.kind = "Input" /\ connector.id \notin ed.inputs THEN {}
       ELSE IF connector.kind = "Output" /\ connector.id \notin ed.outputs THEN {}
       ELSE IF over = {} THEN {}
       ELSE IF connector.kind = "Input"
            THEN Range(ns[first].outputs) \cap ed.outputs
            ELSE Range(ns[first].inputs) \cap ed.inputs

\* Mutant of connection_link: the nearest connector of either kind is paired.
connection_link_any(ed, ns, at, connector) ==
    IF at.internal = None \/ at.hovered \cap DOMAIN ns = {} THEN None
    ELSE IF connector.kind = "Input"
         THEN Some(Link_new(connector.id, at.nearest))
         ELSE Some(Link_new(at.nearest, connector.id))

\* The link of the Connection: the pressed connector and the candidate
\* nearest to the cursor; None when there is no candidate.
connection_link(ed, ns, at, connector) ==
    IF connection_candidates(ed, ns, at, connector) = {} THEN None
    ELSE IF connector.kind = "Input"
         THEN Some(Link_new(connector.id, at.nearest))
         ELSE Some(Link_new(at.nearest, connector.id))

\* The notifications of the children (lines 690-729): the bounds that
\* changed are stored at a redraw, and a pressed connector starts a
\* connection when the editor has an on_link handler.
notifications(ed, event, at) ==
    LET stored ==
            IF event.type = "RedrawRequested"
            THEN [ed EXCEPT
                    !.inputs = @ \cup {c.id : c \in {k \in at.changed : k.kind = "Input"}},
                    !.outputs = @ \cup {c.id : c \in {k \in at.changed : k.kind = "Output"}}]
            ELSE ed
    IN IF /\ event.type = "ButtonPressed" /\ event.button = "Left"
          /\ at.connector # None /\ ed.on_link
       THEN [stored EXCEPT !.interaction = Interaction_Connecting(at.connector[1]),
                           !.redraw = TRUE]
       ELSE stored

\* Mutant of wheel_scrolled: the new zoom is not clamped.
wheel_scrolled_unclamped(ed, event, at) ==
    IF event.type # "WheelScrolled" THEN ed
    ELSE IF ed.modifiers.command
    THEN [ed EXCEPT !.zoom = IF event.delta.y > 0 THEN 2 * ed.zoom ELSE ed.zoom \div 2,
                    !.redraw = TRUE]
    ELSE [ed EXCEPT !.redraw = TRUE]

\* The WheelScrolled branch (lines 731-773): with the command modifier the
\* zoom doubles (y > 0) or halves, clamped to [0.25, 4.0], and the
\* translation follows the pointer; without it the view is panned, by 100
\* per line (along x with shift) or by the pixels of the delta. The zoom is
\* a power of two, so halving its count in eighths is exact.
wheel_scrolled(ed, event, at) ==
    IF event.type # "WheelScrolled" THEN ed
    ELSE IF ed.modifiers.command
    THEN LET new_zoom == clamp(IF event.delta.y > 0 THEN 2 * ed.zoom ELSE ed.zoom \div 2,
                               ZoomMin, ZoomMax)
         IN [ed EXCEPT
               !.zoom = new_zoom,
               !.translation =
                   IF at.internal = None THEN @
                   ELSE Vector_add(@, Vector_scale(Vector_sub(<<0, 0>>, at.internal[1]),
                                                   new_zoom - ed.zoom)),
               !.redraw = TRUE]
    ELSE LET panning ==
                 IF event.delta.unit = "Lines"
                 THEN IF ed.modifiers.shift
                      THEN <<200 * event.delta.y, 0>>
                      ELSE <<0, 200 * event.delta.y>>
                 ELSE <<event.delta.x, event.delta.y>>
         IN [ed EXCEPT !.translation = Vector_add(@, Vector_scale(panning, 8)),
                       !.redraw = TRUE]

\* The arm Interaction::None (lines 776-835).
interaction_none(ed, ord, ns, event, at) ==
    IF ~(event.type = "ButtonPressed" /\ event.button \in {"Left", "Middle"})
    THEN [editor |-> ed, order |-> ord]
    ELSE IF at.external = None THEN [editor |-> ed, order |-> ord]
    ELSE IF event.button = "Left" /\ node_hovered(ns, ord, at) # {}
    THEN LET k == CHOOSE j \in node_hovered(ns, ord, at) : TRUE
             node == ord[k]
         IN [editor |->
                 IF at.internal # None /\ at.direction # None
                 THEN [ed EXCEPT
                         !.interaction = Interaction_Resizing(node, size_get(ed, node),
                                                              at.direction[1],
                                                              at.internal[1]),
                         !.redraw = TRUE]
                 ELSE IF at.internal # None THEN [ed EXCEPT !.redraw = TRUE]
                 ELSE ed,
             order |-> to_front(ord, k)]
    ELSE IF at.captured THEN [editor |-> ed, order |-> ord]
    ELSE [editor |-> [ed EXCEPT
                        !.interaction = Interaction_Panning(at.external[1], at.external[1]),
                        !.redraw = TRUE],
          order |-> ord]

\* The arm Interaction::Connecting (lines 837-850).
interaction_connecting(ed, ns, event, at) ==
    IF event.type = "ButtonReleased" /\ event.button = "Left"
    THEN LET found == connection_link(ed, ns, at, ed.interaction.connector)
         IN [ed EXCEPT
               !.published = IF ed.on_link /\ found # None THEN Append(@, found[1]) ELSE @,
               !.interaction = Interaction_None]
    ELSE ed

\* The arm Interaction::Panning (lines 851-871): the translation takes the
\* offset the arm was entered with.
interaction_panning(ed, event, at) ==
    LET from == ed.interaction.from
        to == ed.interaction.to
        moved == IF at.external # None
                 THEN [ed EXCEPT !.interaction = Interaction_Panning(from, at.external[1])]
                 ELSE ed
    IN IF event.type = "ButtonReleased" /\ event.button \in {"Left", "Middle"}
       THEN [moved EXCEPT
               !.interaction = Interaction_None,
               !.translation = Vector_add(@, Vector_scale(Vector_sub(to, from), 8)),
               !.redraw = TRUE]
       ELSE moved

\* The arm Interaction::Resizing (lines 872-913).
interaction_resizing(ed, ns, event, at) ==
    LET node == ed.interaction.node
        original == ed.interaction.original
        from == ed.interaction.from
    IN IF event.type = "ButtonReleased" /\ event.button = "Left"
       THEN [ed EXCEPT !.interaction = Interaction_None]
       ELSE IF at.internal # None /\ node \in DOMAIN ns
       THEN LET to == at.internal[1]
                new_width == max(round(original[1] + to[1] - from[1]), MinWidth)
                new_height == max(round(original[2] + to[2] - from[2]), MinHeight)
                size == CASE ed.interaction.direction = "Horizontal" ->
                                <<new_width, original[2]>>
                          [] ed.interaction.direction = "Vertical" ->
                                <<original[1], new_height>>
                          [] OTHER -> <<new_width, new_height>>
            IN IF size_get(ed, node) # size
               THEN [ed EXCEPT !.size = insert(@, node, size), !.redraw = TRUE]
               ELSE ed
       ELSE ed

\* NodeEditor::update (lines 652-922): the keyboard modifiers, the
\* notifications, the wheel, the arm of the interaction the notifications
\* left, and the redraw an interaction under way asks for. event and
\* hovered are kept as the history of the call, published and redraw are
\* what the shell received.
NodeEditor_update(ed, ord, ns, event, at) ==
    LET fresh == [ed EXCEPT !.event = event,
                            !.hovered = IF event.type \in {"ButtonPressed", "ButtonReleased"}
                                          THEN at.hovered \cap DOMAIN ns ELSE {},
                            !.published = <<>>, !.redraw = FALSE]
    IN IF event.type = "ModifiersChanged"
       THEN [editor |-> [fresh EXCEPT !.modifiers = event.modifiers], order |-> ord]
       ELSE LET notified == IF \/ event.type = "RedrawRequested"
                               \/ event.type = "ButtonPressed" /\ event.button = "Left"
                            THEN notifications(fresh, event, at)
                            ELSE fresh
                scrolled == wheel_scrolled(notified, event, at)
                matched ==
                    CASE scrolled.interaction.kind = "None" ->
                            interaction_none(scrolled, ord, ns, event, at)
                      [] scrolled.interaction.kind = "Connecting" ->
                            [editor |-> interaction_connecting(scrolled, ns, event, at),
                             order |-> ord]
                      [] scrolled.interaction.kind = "Panning" ->
                            [editor |-> interaction_panning(scrolled, event, at),
                             order |-> ord]
                      [] OTHER ->
                            [editor |-> interaction_resizing(scrolled, ns, event, at),
                             order |-> ord]
            IN IF /\ event.type = "RedrawRequested"
                  /\ matched.editor.interaction.kind \in {"Connecting", "Panning"}
               THEN [matched EXCEPT !.editor.redraw = TRUE]
               ELSE matched

\* ------------------------------------------------- the events of the editor
\* Where the cursor of an event can be, in the window (external) and in the
\* editor after the inverse transformation (internal), and the deltas of a
\* wheel: a line up, a line down, 200 pixels to the right.
ExternalPoints == {Point(0, 0), Point(400, 0)}
InternalPoints == {Point(400, 0)}
WheelDeltas ==
    {[unit |-> "Lines", x |-> 0, y |-> 1], [unit |-> "Lines", x |-> 0, y |-> -1],
     [unit |-> "Pixels", x |-> 400, y |-> 0]}
Buttons == {"Left", "Middle", "Right"}

\* The cursor of an event: outside the window, over the window and not over
\* the editor, or over the editor and a set of registered nodes out of over.
Cursors(over) ==
    {[external |-> None, internal |-> None, hovered |-> {}]}
    \cup {[external |-> Some(p), internal |-> None, hovered |-> {}] : p \in ExternalPoints}
    \cup {[external |-> Some(p), internal |-> Some(q), hovered |-> h] :
             p \in ExternalPoints, q \in InternalPoints, h \in over}

\* The connectors the view shows: one for each port of a registered node.
Connectors(ns, node) ==
    {ConnectorKind_Input(i) : i \in Range(ns[node].inputs)}
    \cup {ConnectorKind_Output(o) : o \in Range(ns[node].outputs)}

NoPort == [node |-> -1, name |-> ""]

\* The inputs of a call that the event at hand does not read.
At(cursor) ==
    [external |-> cursor.external, internal |-> cursor.internal,
     hovered |-> cursor.hovered, connector |-> None, changed |-> {},
     captured |-> FALSE, direction |-> None, nearest |-> NoPort]

\* The translation and the sizes a call leaves are within the bounds.
EditorWithinBounds(ed) ==
    /\ ed.translation[1] \in -MaxTranslation..MaxTranslation
    /\ ed.translation[2] \in -MaxTranslation..MaxTranslation
    /\ \A n \in DOMAIN ed.size :
          ed.size[n][1] <= MaxSize /\ ed.size[n][2] <= MaxSize

\* The variables after a call of NodeEditor::update.
Updated(event, at) ==
    \E r \in {NodeEditor_update(editor, order, nodes, event, at)} :
        /\ EditorWithinBounds(r.editor)
        /\ editor' = r.editor
        /\ order' = r.order
        /\ UNCHANGED <<nodes, links, values, current, issued, last, query, typewriter>>

\* keyboard::Event::ModifiersChanged
ModifiersChanged ==
    \E command \in BOOLEAN : \E shift \in BOOLEAN :
        Updated([type |-> "ModifiersChanged",
                 modifiers |-> [command |-> command, shift |-> shift]],
                At([external |-> None, internal |-> None, hovered |-> {}]))

\* window::Event::RedrawRequested: any connectors report new bounds.
RedrawRequested ==
    \E cursor \in Cursors({{}}) :
    \E changed \in SUBSET UNION {Connectors(nodes, n) : n \in DOMAIN nodes} :
        Updated([type |-> "RedrawRequested"],
                [At(cursor) EXCEPT !.changed = changed])

\* mouse::Event::ButtonPressed: a left press reaches the connector under the
\* cursor, if any, of the topmost hovered node; a child can capture a press
\* over it, and a press near the edge of a node has a direction.
ButtonPressed ==
    \E button \in Buttons : \E cursor \in Cursors(SUBSET DOMAIN nodes) :
    \E captured \in (IF button = "Middle" /\ cursor.hovered # {}
                      THEN BOOLEAN ELSE {FALSE}) :
    \E direction \in (IF button = "Left" /\ cursor.hovered # {}
                       THEN {None} \cup {Some(d) : d \in Directions} ELSE {None}) :
    \E connector \in (IF button = "Left"
                       THEN {None} \cup
                            {Some(c) : c \in UNION {Connectors(nodes, order[k]) :
                                          k \in node_hovered(nodes, order, cursor)}}
                       ELSE {None}) :
        Updated([type |-> "ButtonPressed", button |-> button],
                [At(cursor) EXCEPT !.connector = connector,
                                            !.captured = captured,
                                            !.direction = direction])

\* mouse::Event::ButtonReleased: nearest is the candidate of the connection
\* nearest to the cursor when there is one.
ButtonReleased ==
    \E button \in Buttons : \E cursor \in Cursors(SUBSET DOMAIN nodes) :
    \E nearest \in (IF editor.interaction.kind = "Connecting"
                        /\ button = "Left" /\ cursor.hovered # {}
                     THEN issued.inputs \cup issued.outputs ELSE {NoPort}) :
        LET at == [At(cursor) EXCEPT !.nearest = nearest]
            candidates == IF editor.interaction.kind = "Connecting"
                          THEN connection_candidates(editor, nodes, at,
                                                     editor.interaction.connector)
                          ELSE {}
        IN /\ (candidates # {}) => nearest \in candidates
           /\ Updated([type |-> "ButtonReleased", button |-> button], at)

\* mouse::Event::CursorMoved
CursorMoved ==
    \E cursor \in Cursors({{}}) :
        Updated([type |-> "CursorMoved"], At(cursor))

\* mouse::Event::WheelScrolled
WheelScrolled ==
    \E delta \in WheelDeltas : \E cursor \in Cursors({{}}) :
        Updated([type |-> "WheelScrolled", delta |-> delta], At(cursor))

\* The editor over a graph of a Number and a Display.
Editor_graph ==
    push(push(Graph_new, "Number", 1, Point(20, 20), <<>>).graph,
         "Display", 0, Point(600, 200), <<>>)

InitEditor ==
    /\ nodes = Editor_graph.graph.nodes
    /\ links = Editor_graph.graph.links
    /\ values = Editor_graph.graph.values
    /\ current = Editor_graph.graph.current
    /\ order = Editor_graph.graph.order
    /\ issued = issue(issue(NoHandles, 0, "Number", FALSE), 1, "Display", FALSE)
    /\ last = [op |-> "finish", node |-> 1, pass |-> TRUE, changed |-> TRUE,
               evals |-> Editor_graph.evals, done |-> Editor_graph.done, link |-> None]
    /\ query = NoQuery
    /\ \E on_link \in BOOLEAN : editor = [Editor_new EXCEPT !.on_link = on_link]
    /\ typewriter = NoTypewriter

NextEditor ==
    \/ RedrawRequested
    \/ ButtonPressed
    \/ ButtonReleased
    \/ CursorMoved

SpecEditor == InitEditor /\ [][NextEditor]_vars

\* The zoom and the translation: the modifiers change and the wheel turns.
NextZoom ==
    \/ ModifiersChanged
    \/ WheelScrolled
    \/ CursorMoved

SpecZoom == InitEditor /\ [][NextZoom]_vars

\* The stacking order: nodes are finished and pressed.
NextStack ==
    \/ current < SmallNodes /\ Finish
    \/ ButtonPressed
    \/ ButtonReleased

SpecStack == Init /\ [][NextStack]_vars

\* ------------------------------------------------------------ Typewriter
\* src/widget/typewriter.rs. Instants and durations are whole milliseconds;
\* a fragment is the sequence of its characters. The record holds the
\* widget (fragment, speed), its state (text: the content of State::text;
\* animation with, while Ticking, start and shown, the content of the
\* truncated paragraph), and the history of the last call: op, visible,
\* now, requested (the instant handed to Shell::request_redraw_at) and
\* changes (the layouts so far that saw a different text).
Chars == {"a", " "}
Fragments == UNION {[1..n -> Chars] : n \in 0..MaxChars}
Speeds == 0..MaxSpeed

\* usize::MAX, what a cast of an infinite f32 to usize gives; it is only
\* compared with a number of characters.
USIZE_MAX == 2147483647

\* The longest a run from Ticking to Done takes once redraws advance, and
\* the latest instant the clock is followed to.
RunTime == MaxChars * MaxSpeed + 2 * MaxStep
MaxTime == RunTime * (MaxChanges + 1)

\* str::trim on a sequence of characters.
RECURSIVE trim(_)
trim(s) ==
    IF s = <<>> THEN s
    ELSE IF Head(s) = " " THEN trim(Tail(s))
    ELSE IF s[Len(s)] = " " THEN trim(SubSeq(s, 1, Len(s) - 1))
    ELSE s

\* fragment.chars().take(tick).collect()
take(s, tick) == SubSeq(s, 1, IF tick < Len(s) THEN tick ELSE Len(s))

\* ((now - start).as_millis() as f32 / tick_rate) as usize (lines 269-270):
\* the subtraction of instants saturates at zero, 0.0 / 0.0 is NaN and casts
\* to 0, a positive number over 0.0 is infinite and casts to usize::MAX, and
\* any other quotient is cut to its whole part.
tick_of(now, start, tick_rate) ==
    LET elapsed == IF now >= start THEN now - start ELSE 0
    IN IF tick_rate = 0 THEN (IF elapsed = 0 THEN 0 ELSE USIZE_MAX)
       ELSE elapsed \div tick_rate

\* Typewriter::new with a speed, and Widget::state (lines 33-40, 161-169).
Typewriter_new(fragment, speed) ==
    [fragment |-> fragment, speed |-> speed, text |-> <<>>,
     animation |-> "Ticking", start |-> None, shown |-> <<>>,
     op |-> "new", visible |-> TRUE, now |-> 0, requested |-> None, changes |-> 0]

\* Widget::layout of a Typewriter of the given fragment over the state
\* (lines 176-207).
Typewriter_layout(tw, fragment) ==
    LET has_changed == tw.text # fragment
        laid == [tw EXCEPT !.fragment = fragment, !.text = fragment,
                           !.op = "layout", !.requested = None]
    IN IF has_changed
       THEN [laid EXCEPT !.animation = "Ticking", !.start = None, !.shown = <<>>,
                         !.changes = @ + 1]
       ELSE laid

\* Mutant of Typewriter_update: the start of the animation is taken anew at
\* every redraw.
Typewriter_update_restarting(tw, now, visible) ==
    LET called == [tw EXCEPT !.op = "update", !.visible = visible, !.now = now,
                             !.requested = None]
    IN IF ~visible \/ tw.animation # "Ticking" THEN called
       ELSE IF 0 >= Len(tw.fragment)
       THEN [called EXCEPT !.animation = "Done", !.start = None, !.shown = <<>>]
       ELSE [called EXCEPT !.start = Some(now),
                           !.shown = <<>>,
                           !.requested = Some(now + tw.speed)]

\* Widget::update on RedrawRequested(now) (lines 241-290); visible is
\* whether the bounds of the layout intersect the viewport.
Typewriter_update(tw, now, visible) ==
    LET called == [tw EXCEPT !.op = "update", !.visible = visible, !.now = now,
                             !.requested = None]
    IN IF ~visible THEN called
       ELSE IF tw.animation # "Ticking" THEN called
       ELSE LET start == IF tw.start = None THEN now ELSE tw.start[1]
                tick == tick_of(now, start, tw.speed)
                total_chars == Len(tw.fragment)
            IN IF tick >= total_chars
               THEN [called EXCEPT !.animation = "Done", !.start = None, !.shown = <<>>]
               ELSE [called EXCEPT !.start = Some(start),
                                   !.shown = trim(take(tw.fragment, tick)),
                                   !.requested = Some(now + tw.speed)]

InitTypewriter ==
    /\ nodes = Graph_new.nodes
    /\ links = Graph_new.links
    /\ values = Graph_new.values
    /\ current = Graph_new.current
    /\ order = Graph_new.order
    /\ issued = NoHandles
    /\ last = NoCall
    /\ query = NoQuery
    /\ editor = Editor_new
    /\ \E fragment \in Fragments : \E speed \in Speeds :
          typewriter = Typewriter_new(fragment, speed)

\* The time the animations still to run may take: the run under way or to
\* come for the present text, and one for every change of text to come.
Reserve(tw) == RunTime * (MaxChanges - tw.changes + 1)

\* The view is built with a fragment and laid out.
Layout ==
    \E fragment \in Fragments :
        /\ (typewriter.text # fragment) => typewriter.changes < MaxChanges
        /\ typewriter' = Typewriter_layout(typewriter, fragment)
        /\ UNCHANGED <<nodes, links, values, current, order, issued, last, query, editor>>

\* A redraw of the visible widget at a later instant. While the animation
\* is Done the clock stops short of the time the animations to come need.
Redraw ==
    \E dt \in 1..MaxStep :
        /\ typewriter.now + dt <= MaxTime
        /\ typewriter.animation = "Done" => typewriter.now + dt + Reserve(typewriter) <= MaxTime
        /\ typewriter' = Typewriter_update(typewriter, typewriter.now + dt, TRUE)
        /\ UNCHANGED <<nodes, links, values, current, order, issued, last, query, editor>>

\* A redraw of the visible widget at the instant of the last one.
RedrawAtOnce ==
    /\ typewriter' = Typewriter_update(typewriter, typewriter.now, TRUE)
    /\ UNCHANGED <<nodes, links, values, current, order, issued, last, query, editor>>

\* A redraw while the widget is outside the viewport.
RedrawOutside ==
    \E dt \in 0..MaxStep :
        /\ typewriter.now + dt + Reserve(typewriter) <= MaxTime
        /\ typewriter' = Typewriter_update(typewriter, typewriter.now + dt, FALSE)
        /\ UNCHANGED <<nodes, links, values, current, order, issued, last, query, editor>>

NextTypewriter ==
    \/ Layout
    \/ Redraw
    \/ RedrawAtOnce
    \/ RedrawOutside

SpecTypewriter == InitTypewriter /\ [][NextTypewriter]_vars

\* The shell redraws at the instant handed to request_redraw_at, and the
\* instants of the monotonic clock advance: a redraw of the visible widget
\* at a later instant is not put off forever.
SpecTypewriterLive == SpecTypewriter /\ WF_vars(Redraw)

\* ------------------------------------------------- vocabulary of the claims
\* The edges of the link table: from the node that owns the linked output to
\* the registered node that owns the input.
Edges(ns, ls) == {<<ls[i].node, i.node>> : i \in {j \in DOMAIN ls : j.node \in DOMAIN ns}}

Acyclic(ns, ls) == \A e \in Closure(Edges(ns, ls)) : e[1] # e[2]

Downstream(ns, ls, n) == {e[2] : e \in {d \in Closure(Edges(ns, ls)) : d[1] = n}}

Ancestors(ns, ls, n) == {e[1] : e \in {d \in Closure(Edges(ns, ls)) : d[2] = n}}

Predecessors(ns, ls, n) == {e[1] : e \in {d \in Edges(ns, ls) : d[2] = n}}

\* The nodes the runs of a pass evaluated, in order.
EvalNodes(evals) == [k \in DOMAIN evals |-> evals[k].node]

Count(seq, x) == Cardinality({k \in DOMAIN seq : seq[k] = x})

Positions(seq, x) == {k \in DOMAIN seq : seq[k] = x}

Max(S) == CHOOSE x \in S : \A y \in S : y <= x

Min(S) == CHOOSE x \in S : \A y \in S : x <= y

\* The nodes first reached d links away of origin: an edge leads from the
\* owner of a linked output to the owner of the input.
RECURSIVE Within(_, _, _)
Within(ls, origin, d) ==
    IF d = 0 THEN {origin}
    ELSE LET near == Within(ls, origin, d - 1)
         IN near \cup {i.node : i \in {j \in DOMAIN ls : ls[j].node \in near}}

Level(ls, origin, d) ==
    IF d = 0 THEN {origin}
    ELSE Within(ls, origin, d) \ Within(ls, origin, d - 1)

\* The graph reached from g by the link calls that install the table ls,
\* made in one fixed order of the inputs, each with one fixed iteration order.
RECURSIVE link_all(_, _, _)
link_all(g, ls, todo) ==
    IF todo = {} THEN g
    ELSE LET i == CHOOSE j \in todo : TRUE
             ord == CHOOSE p \in HashOrders(Pushed(insert(g.links, i, ls[i]), i.node)) : TRUE
         IN link_all(link(g, i, ls[i], ord).graph, ls, todo \ {i})

\* The cache holds for node n what the callback produces now.
UpToDate(n) == evaluate(nodes, links, values, n) = values

\* What the latest run of the callback on node in a pass produced for output.
LatestProduced(evals, node, output) ==
    LET latest == evals[Max(Positions(EvalNodes(evals), node))].produced
    IN IF output \in DOMAIN latest THEN latest[output] ELSE None

\* ------------------------------------------------------------------ claims
\* C1: on an acyclic graph, after every call, every registered node's cached
\* outputs are what the callback produces from its state and the cached
\* values of the outputs linked to its inputs.
C1_NoStaleOutput ==
    Acyclic(nodes, links) => \A n \in DOMAIN nodes : UpToDate(n)

\* C2: in the example, once the three links are made (in any order),
\* input(Display.value) reads the sum of A and B: 3 for 1 and 2, and 7 after
\* update(A) typed 5; and an update of A leaves B and the links as they were.
C2_ExampleReads ==
    [][/\ (links' = ExampleLinks) =>
             (get(links', values', display_value)
                 = Some(nodes'[0].state.n + nodes'[1].state.n))
       /\ (last'.op = "update" /\ last'.node = 0) =>
             (nodes'[1] = nodes[1] /\ links' = links)]_vars

C2_Witness ==
    /\ links = ExampleLinks
    /\ last.op = "update" /\ last.node = 0 /\ last.changed
    /\ nodes[0].state.n = 5 /\ nodes[1].state.n = 2
    /\ input(display_value) = Some(7)

\* The reading of 8 for A = 5 and B = 2, with the three links made.
C2_ReadsEight ==
    (/\ links = ExampleLinks
     /\ last.op = "update" /\ last.node = 0
     /\ nodes[0].state.n = 5 /\ nodes[1].state.n = 2)
        => input(display_value) = Some(8)

\* C3: after an update of a registered node, every input linked to one of
\* its outputs reads what the latest run of the callback on that node
\* produced for the output, computed from the state the update left: for a
\* Number, the number typed.
C3_InputReadsFresh ==
    (last.op = "update" /\ last.pass) =>
        /\ Positions(EvalNodes(last.evals), last.node) # {}
        /\ \A i \in DOMAIN links :
              links[i].node = last.node =>
                 /\ input(i) = LatestProduced(last.evals, last.node, links[i])
                 /\ nodes[last.node].state.kind = "Number" =>
                       input(i) = Some(nodes[last.node].state.n)

C3_Witness ==
    /\ last.op = "update" /\ last.pass /\ last.changed
    /\ \E i \in DOMAIN links :
          /\ links[i].node = last.node
          /\ input(i) = Some(nodes[last.node].state.n)
          /\ i.node \in DOMAIN nodes

\* C4: a pass evaluates the origin and every registered node downstream of
\* it exactly once each, and no other node, whatever the links.
C4_ExactlyOnce ==
    last.pass =>
        LET affected == ({last.node} \cup Downstream(nodes, links, last.node)) \cap DOMAIN nodes
        IN /\ \A m \in affected : Count(EvalNodes(last.evals), m) = 1
           /\ Range(EvalNodes(last.evals)) \subseteq affected

\* C5: every invalidation pass runs to the end, whatever the links, and runs
\* the callback at most twice on any node.
C5_PassTerminates ==
    last.pass =>
        /\ last.done
        /\ \A m \in DOMAIN nodes : Count(EvalNodes(last.evals), m) <= 2

C5_Witness ==
    /\ last.pass /\ last.done
    /\ \E m \in DOMAIN nodes :
          /\ m # last.node
          /\ <<last.node, m>> \in Closure(Edges(nodes, links))
          /\ <<m, last.node>> \in Closure(Edges(nodes, links))
          /\ <<m, m>> \in Edges(nodes, links)

\* C6: an update that changes nothing, rooted at the node the previous pass
\* was rooted at, leaves the cache as that pass left it (stated for acyclic
\* link tables).
C6_Idempotent ==
    [][(/\ last.pass /\ last'.pass /\ last'.node = last.node
        /\ last'.op = "update"
        /\ nodes' = nodes /\ links' = links
        /\ Acyclic(nodes, links))
       => values' = values]_vars

\* C7: on an acyclic graph, schedule(n) of a registered node n contains every
\* node of dependencies(n) and n (stated for graphs whose builders were all
\* finished).
C7_ScheduleContainsDependencies ==
    (/\ query.op = "schedule" /\ query.node \in DOMAIN nodes
     /\ Acyclic(nodes, links) /\ issued.dropped = {})
    => (query.dependencies \cup {query.node}) \subseteq Range(query.schedule)

\* C8: on an acyclic graph, every node of schedule(n) appears strictly after
\* each of its direct predecessors (stated for graphs whose builders were
\* all finished).
C8_ScheduleAfterPredecessors ==
    (/\ query.op = "schedule" /\ query.node \in DOMAIN nodes
     /\ Acyclic(nodes, links) /\ issued.dropped = {})
    => \A k \in DOMAIN query.schedule :
          \A p \in Predecessors(nodes, links, query.schedule[k]) :
             \E j \in 1..(k - 1) : query.schedule[j] = p

\* C9: schedule(n) is never empty and ends with n, for every node id and
\* every link table.
C9_ScheduleEndsWithNode ==
    query.op = "schedule" =>
        /\ Len(query.schedule) >= 1
        /\ query.schedule[Len(query.schedule)] = query.node

C9_Witness ==
    /\ query.op = "schedule"
    /\ query.node \notin DOMAIN nodes
    /\ query.node \in issued.dropped
    /\ \E i \in DOMAIN links : i.node = query.node
    /\ query.schedule = <<query.node>>

\* C10: on an acyclic graph, dependencies(n) is exactly the set of the
\* transitive ancestors of n along the links.
C10_DependenciesAreAncestors ==
    (query.op = "dependencies" /\ Acyclic(nodes, links))
    => query.dependencies = Ancestors(nodes, links, query.node)

C10_Witness ==
    /\ query.op = "dependencies" /\ Acyclic(nodes, links)
    /\ query.node \in DOMAIN nodes
    /\ query.dependencies # {}
    /\ query.dependencies # Predecessors(nodes, links, query.node)

\* C11: dependencies(n) never contains n itself, for every node id and every
\* link table.
C11_DependenciesExcludeNode ==
    query.op = "dependencies" => query.node \notin query.dependencies

\* C12: an input has one linked output at most; after link(i, o) the one
\* edge of i is the edge to o, also when i was linked to another output
\* before, and a read of i returns what the cache holds for o.
C12_LinkReplaces ==
    /\ \A i \in DOMAIN links :
          Cardinality({o \in issued.outputs : links[i] = o}) = 1
    /\ last.op = "link" =>
          /\ last.link[1].input \in DOMAIN links
          /\ links[last.link[1].input] = last.link[1].output
          /\ input(last.link[1].input)
                = (IF last.link[1].output \in DOMAIN values
                   THEN values[last.link[1].output] ELSE None)

C12_Witness ==
    /\ last.op = "link"
    /\ last.link[1].previous # None
    /\ last.link[1].previous[1] # last.link[1].output
    /\ last.link[1].previous[1] \in DOMAIN values
    /\ values[last.link[1].previous[1]] # None
    /\ input(last.link[1].input) # None
    /\ input(last.link[1].input) # values[last.link[1].previous[1]]

\* C13: link(i, o) changes the link-table entry of i only: every other input
\* keeps the link it had, so several inputs can be linked to one output.
C13_LinkFrame ==
    [][last'.op = "link" =>
         /\ DOMAIN links' = DOMAIN links \cup {last'.link[1].input}
         /\ \A j \in DOMAIN links :
               j # last'.link[1].input => links'[j] = links[j]]_vars

C13_Witness ==
    /\ last.op = "link"
    /\ \E j \in DOMAIN links :
          /\ j # last.link[1].input
          /\ links[j] = last.link[1].output
          /\ input(j) # None
          /\ input(j) = input(last.link[1].input)

\* C14: the id a call of build returns is greater than every id the graph
\* issued before, to finished and to dropped builders alike; the id of a
\* dropped builder is never registered.
C14_BuildIdsFresh ==
    [][last'.op \in {"finish", "drop"} =>
         /\ \A id \in DOMAIN nodes \cup issued.dropped : id < last'.node
         /\ last'.node < current'
         /\ last'.op = "finish" => DOMAIN nodes' = DOMAIN nodes \cup {last'.node}
         /\ last'.op = "drop" => nodes' = nodes /\ last'.node \in issued'.dropped
         /\ issued'.dropped \cap DOMAIN nodes' = {}]_vars

C14_Witness ==
    /\ last.op = "finish"
    /\ \E d \in issued.dropped : d < last.node /\ d \notin DOMAIN nodes
    /\ \E m \in DOMAIN nodes : m < last.node

\* C15: when Builder::finish returns, the new node is registered with the
\* inputs and outputs declared on its builder, in declaration order, it is
\* last in insertion order, and it (and no other node) has been evaluated:
\* the cache holds for each of its outputs what the callback produced.
C15_FinishRegistersAndEvaluates ==
    last.op = "finish" =>
        /\ last.node \in DOMAIN nodes
        /\ nodes[last.node].id = last.node
        /\ nodes[last.node].inputs = builder_inputs(last.node, nodes[last.node].state.kind)
        /\ nodes[last.node].outputs = builder_outputs(last.node, nodes[last.node].state.kind)
        /\ Range(nodes[last.node].inputs) = {i \in issued.inputs : i.node = last.node}
        /\ Range(nodes[last.node].outputs) = {o \in issued.outputs : o.node = last.node}
        /\ Len(order) >= 1 /\ order[Len(order)] = last.node
        /\ Count(order, last.node) = 1
        /\ last.pass /\ last.done /\ EvalNodes(last.evals) = <<last.node>>
        /\ \A o \in Range(nodes[last.node].outputs) :
              /\ o \in DOMAIN values
              /\ o \in DOMAIN last.evals[1].produced
              /\ values[o] = last.evals[1].produced[o]
        /\ UpToDate(last.node)
        /\ nodes[last.node].state.kind = "Number" =>
              values[nodes[last.node].state.output] = Some(nodes[last.node].state.n)

C15_Witness ==
    /\ last.op = "finish"
    /\ Len(order) >= 2
    /\ nodes[last.node].state.kind = "Number"
    /\ values[nodes[last.node].state.output] = Some(nodes[last.node].state.n)
    /\ \E i \in DOMAIN links : i.node \in issued.dropped

\* The callback of the Add node n produced no value at its latest run in the
\* last pass: one of its inputs is not linked, or is linked to an output of
\* n itself (dropped before the callback runs), or reads nothing now from a
\* node the pass did not evaluate after that run.
Declined(n) ==
    /\ nodes[n].state.kind = "Add"
    /\ \E x \in {nodes[n].state.a, nodes[n].state.b} :
          \/ x \notin DOMAIN links
          \/ links[x].node = n
          \/ /\ input(x) = None
             /\ \A k \in Positions(EvalNodes(last.evals), links[x].node) :
                   k < Max(Positions(EvalNodes(last.evals), n))

\* C16: when the callback of a node evaluated in a pass produced no value for
\* its output, the cache holds no value for it and every input linked to it
\* reads nothing, whatever an earlier evaluation had cached.
C16_NoValueClearsCache ==
    last.pass =>
        \A n \in Range(EvalNodes(last.evals)) :
           Declined(n) =>
              /\ nodes[n].state.output \in DOMAIN values =>
                    values[nodes[n].state.output] = None
              /\ \A i \in DOMAIN links :
                    links[i] = nodes[n].state.output => input(i) = None

\* The Add node of the link just made had both inputs on outputs of Number
\* nodes, so its result held a value; the link moved one input to a source
\* without a value, and a reader of the result on another node reads nothing.
C16_Witness ==
    /\ last.op = "link"
    /\ last.node \in DOMAIN nodes
    /\ nodes[last.node].state.kind = "Add"
    /\ last.link[1].previous # None
    /\ last.link[1].previous[1].node \in DOMAIN nodes
    /\ nodes[last.link[1].previous[1].node].state.kind = "Number"
    /\ \E y \in {nodes[last.node].state.a, nodes[last.node].state.b} \ {last.link[1].input} :
          /\ y \in DOMAIN links
          /\ links[y].node \in DOMAIN nodes
          /\ nodes[links[y].node].state.kind = "Number"
    /\ input(last.link[1].input) = None
    /\ Declined(last.node)
    /\ \E i \in DOMAIN links :
          /\ i.node # last.node
          /\ links[i] = nodes[last.node].state.output
          /\ input(i) = None

\* C17: a read of an input returns a value only when the input is linked to
\* an output whose cache entry holds a value, and then that value; an input
\* never linked, an input linked to an output of a node never evaluated, and
\* an input linked to the result of an Add with an input not linked all read
\* nothing.
C17_ReadsNothingWithoutValue ==
    \A i \in issued.inputs :
       /\ i \notin DOMAIN links => input(i) = None
       /\ (i \in DOMAIN links /\ links[i].node \notin DOMAIN nodes) => input(i) = None
       /\ (/\ i \in DOMAIN links
           /\ links[i].node \in DOMAIN nodes
           /\ nodes[links[i].node].state.kind = "Add"
           /\ \E x \in {nodes[links[i].node].state.a, nodes[links[i].node].state.b} :
                 x \notin DOMAIN links)
             => input(i) = None
       /\ input(i) # None =>
             /\ i \in DOMAIN links
             /\ links[i] \in DOMAIN values
             /\ values[links[i]] # None
             /\ input(i) = values[links[i]]

C17_Witness ==
    /\ \E i \in issued.inputs : i \notin DOMAIN links /\ input(i) = None
    /\ \E i \in DOMAIN links : links[i].node \in issued.dropped /\ input(i) = None
    /\ \E i \in DOMAIN links :
          /\ links[i].node \in DOMAIN nodes
          /\ links[i] \in DOMAIN values
          /\ values[links[i]] = None
          /\ input(i) = None
    /\ \E i \in DOMAIN links : input(i) # None

\* C18: a read of an input linked to an output that holds a value of another
\* type than the input's returns nothing, a read of a value of the input's
\* type returns it, and a read changes nothing in the graph; link installs
\* the link whatever the types of the two ports.
C18_MismatchReadsNothing ==
    [][query'.op = "get" =>
         /\ UNCHANGED <<nodes, links, values, current, order>>
         /\ (/\ query'.input.id \in DOMAIN links
             /\ links[query'.input.id] \in DOMAIN values
             /\ values[links[query'.input.id]] # None)
            => IF values[links[query'.input.id]][1].type = query'.input.type
               THEN query'.result = Some(values[links[query'.input.id]][1].value)
               ELSE query'.result = None]_vars

C18_Witness ==
    /\ query.op = "get"
    /\ last.op = "link"
    /\ query.input.id \in DOMAIN links
    /\ links[query.input.id] \in DOMAIN values
    /\ values[links[query.input.id]] # None
    /\ values[links[query.input.id]][1].type # query.input.type
    /\ query.result = None

\* C19: update of a node id that is not registered runs neither the closure
\* nor a pass and leaves the registry, the link table and the cache as they
\* were; get of that id returns nothing.
C19_UnregisteredUpdate ==
    [][(last'.op = "update" /\ last'.node \notin DOMAIN nodes) =>
         /\ ~last'.pass /\ last'.evals = <<>>
         /\ nodes' = nodes /\ links' = links /\ values' = values
         /\ current' = current /\ order' = order
         /\ Graph_get(nodes', last'.node) = None]_vars

C19_Witness ==
    /\ last.op = "update" /\ last.node \notin DOMAIN nodes
    /\ ~last.pass
    /\ Graph_get(nodes, last.node) = None
    /\ \E m \in DOMAIN nodes : Graph_get(nodes, m) # None
    /\ \E i \in DOMAIN links : input(i) # None

\* C20: move_to changes the position of the given node and nothing else: no
\* node is evaluated, the cache, the link table, every node's user state and
\* ports and every other node's position stay as they were; for an id that
\* is not registered nothing changes.
C20_MoveToFrame ==
    [][last'.op = "move_to" =>
         /\ ~last'.pass /\ last'.evals = <<>>
         /\ values' = values /\ links' = links
         /\ current' = current /\ order' = order
         /\ DOMAIN nodes' = DOMAIN nodes
         /\ \A m \in DOMAIN nodes :
               /\ nodes'[m].state = nodes[m].state
               /\ nodes'[m].id = nodes[m].id
               /\ nodes'[m].inputs = nodes[m].inputs
               /\ nodes'[m].outputs = nodes[m].outputs
               /\ m # last'.node => nodes'[m].position = nodes[m].position
         /\ last'.node \notin DOMAIN nodes => nodes' = nodes]_vars

C20_Witness ==
    /\ last.op = "move_to"
    /\ last.node \in DOMAIN nodes
    /\ nodes[last.node].position = Point(22, -2)
    /\ \E m \in DOMAIN nodes : nodes[m].position \notin {Point(22, -2)}
    /\ links = ExampleLinks
    /\ input(display_value) = Some(7)

\* C21: dependencies and schedule leave the registry, the link table, the
\* cache, the counter and the order as they were, and run no pass; the
\* connections schedule removes are removed from its own copy.
C21_QueriesArePure ==
    [][query'.op \in {"dependencies", "schedule"} =>
         /\ nodes' = nodes /\ links' = links /\ values' = values
         /\ current' = current /\ order' = order
         /\ last' = last]_vars

C21_Witness ==
    /\ query.op = "schedule"
    /\ Len(query.schedule) >= 3
    /\ \E ord \in HashOrders(query.dependencies) :
          /\ schedule(nodes, links, query.node, ord) = query.schedule
          /\ schedule_links(nodes, links, query.node, ord) # links
    /\ \E o \in DOMAIN values : values[o] # None /\ o.node \in Range(query.schedule)

\* C30: the sequence schedule returns contains no node twice, whatever the
\* node id and the link table.
C30_ScheduleNoDuplicates ==
    query.op = "schedule" =>
        \A j, k \in DOMAIN query.schedule :
           j # k => query.schedule[j] # query.schedule[k]

C30_Witness ==
    /\ query.op = "schedule"
    /\ query.node \in query.dependencies
    /\ Len(query.schedule) >= 2
    /\ \E m \in DOMAIN nodes :
          /\ m # query.node
          /\ <<m, m>> \in Closure(Edges(nodes, links))

\* C22: evaluating a registered node that declares no inputs leaves a value
\* in the cache for each of its declared outputs, the one its state gives
\* whatever the links and the cache hold, and leaves every other cache entry
\* as it was; the runs of the last pass on such nodes produced just that.
C22_NoInputNodeEvaluates ==
    /\ \A n \in DOMAIN nodes :
          nodes[n].inputs = <<>> =>
             /\ DOMAIN evaluate(nodes, links, values, n)
                   = DOMAIN values \cup Range(nodes[n].outputs)
             /\ \A o \in DOMAIN evaluate(nodes, links, values, n) :
                   IF o \in Range(nodes[n].outputs)
                   THEN /\ evaluate(nodes, links, values, n)[o] # None
                        /\ evaluate(nodes, links, values, n)[o]
                              = evaluate(nodes, <<>>, <<>>, n)[o]
                        /\ evaluate(nodes, links, values, n)[o] = Some(nodes[n].state.n)
                   ELSE evaluate(nodes, links, values, n)[o] = values[o]
    /\ \A k \in DOMAIN last.evals :
          nodes[last.evals[k].node].inputs = <<>> =>
             /\ DOMAIN last.evals[k].produced = Range(nodes[last.evals[k].node].outputs)
             /\ \A o \in DOMAIN last.evals[k].produced :
                   last.evals[k].produced[o] = Some(nodes[last.evals[k].node].state.n)

C22_Witness ==
    /\ last.op = "update" /\ last.pass /\ last.changed
    /\ nodes[last.node].inputs = <<>>
    /\ Len(last.evals) >= 2
    /\ \E o \in DOMAIN values : o.node # last.node /\ values[o] # None
    /\ \E o \in DOMAIN values : o.node # last.node /\ values[o] = None
    /\ \E m \in DOMAIN nodes :
          m # last.node /\ nodes[m].inputs = <<>> /\ nodes[m].state.n # nodes[last.node].state.n

\* C23: whatever the operation (finish, link, update, move_to, dependencies,
\* schedule), a registered node stays registered under its id, and its lists
\* of inputs and outputs stay as finish stored them.
C23_NodesAndPortsStay ==
    [][\A m \in DOMAIN nodes :
          /\ m \in DOMAIN nodes'
          /\ nodes'[m].id = nodes[m].id
          /\ nodes'[m].inputs = nodes[m].inputs
          /\ nodes'[m].outputs = nodes[m].outputs]_vars

C23_Witness ==
    /\ Cardinality(DOMAIN nodes) = SmallNodes
    /\ last.op = "update" /\ last.pass /\ last.changed
    /\ \E m \in DOMAIN nodes : nodes[m].position \notin Spots
    /\ \E i \in DOMAIN links : input(i) # None
    /\ \A m \in DOMAIN nodes :
          /\ nodes[m].inputs = builder_inputs(m, nodes[m].state.kind)
          /\ nodes[m].outputs = builder_outputs(m, nodes[m].state.kind)

\* C28: no step removes an entry of the link table, and a step that adds or
\* changes the entry of an input is a call of link for that input.
C28_LinksNeverRemoved ==
    [][/\ DOMAIN links \subseteq DOMAIN links'
       /\ \A j \in DOMAIN links' :
             (j \notin DOMAIN links \/ links'[j] # links[j]) =>
                /\ last'.op = "link"
                /\ last'.link[1].input = j
                /\ last'.link[1].output = links'[j]
                /\ query'.op = "none"]_vars

C28_Witness ==
    /\ query.op = "schedule"
    /\ \E ord \in HashOrders(query.dependencies) :
          /\ schedule(nodes, links, query.node, ord) = query.schedule
          /\ DOMAIN schedule_links(nodes, links, query.node, ord) # DOMAIN links
    /\ last.op = "link"
    /\ last.link[1].previous # None
    /\ last.link[1].previous[1] # last.link[1].output

\* C24: update of a registered node applies the closure to the state of that
\* node and of no other, then runs the pass rooted at the node: the first
\* run of the callback is on the node and produces the value of the state
\* the closure left, and a node downstream whose inputs are all on the
\* node's output computes from that value.
C24_UpdateThenPass ==
    [][(last'.op = "update" /\ last'.node \in DOMAIN nodes) =>
         /\ \E n \in Numbers :
               nodes' = [nodes EXCEPT ![last'.node].state = number_changed(@, n)]
         /\ links' = links
         /\ last'.pass /\ last'.done
         /\ last'.evals # <<>>
         /\ last'.evals[1].node = last'.node
         /\ nodes'[last'.node].state.kind = "Number" =>
               /\ last'.evals[1].produced
                     = (nodes'[last'.node].state.output :> Some(nodes'[last'.node].state.n))
               /\ \A k \in DOMAIN last'.evals :
                     LET m == last'.evals[k].node
                     IN (/\ nodes'[m].state.kind = "Add"
                         /\ nodes'[m].state.a \in DOMAIN links
                         /\ nodes'[m].state.b \in DOMAIN links
                         /\ links[nodes'[m].state.a] = nodes'[last'.node].state.output
                         /\ links[nodes'[m].state.b] = nodes'[last'.node].state.output)
                        => last'.evals[k].produced
                             = (nodes'[m].state.output
                                  :> Some(2 * nodes'[last'.node].state.n))]_vars

C24_Witness ==
    /\ last.op = "update" /\ last.node \in DOMAIN nodes
    /\ last.changed
    /\ nodes[last.node].state.kind = "Number"
    /\ \E k \in DOMAIN last.evals :
          /\ k > 1
          /\ nodes[last.evals[k].node].state.kind = "Add"
          /\ last.evals[k].produced
                = (nodes[last.evals[k].node].state.output
                     :> Some(2 * nodes[last.node].state.n))

\* C26: a pass rooted at node n runs the callback on n and on nodes
\* downstream of n (the nodes a path of links leads to from n) only; the
\* user state and the cache entries of the outputs
\* of every other node are as they were before the call.
C26_PassFrame ==
    [][last'.pass =>
         LET affected == {last'.node} \cup Pushed(links', last'.node)
         IN /\ Range(EvalNodes(last'.evals)) \subseteq affected
            /\ \A m \in DOMAIN nodes \ affected :
                  /\ nodes'[m].state = nodes[m].state
                  /\ \A o \in Range(nodes[m].outputs) :
                        /\ o \in DOMAIN values' <=> o \in DOMAIN values
                        /\ o \in DOMAIN values => values'[o] = values[o]]_vars

C26_Witness ==
    /\ last.pass
    /\ Len(last.evals) >= 2
    /\ \E m \in DOMAIN nodes :
          /\ m \notin {last.node} \cup Pushed(links, last.node)
          /\ \E i \in DOMAIN links : i.node = m
          /\ \E o \in Range(nodes[m].outputs) : o \in DOMAIN values /\ values[o] # None

\* C27: every call of link ends with the input linked to the output it was
\* given and with its pass run to the end, also when the link closes a
\* cycle, joins two ports of one node, or names a port of a node that is not
\* registered.
C27_LinkAlwaysInstalls ==
    last.op = "link" =>
        /\ last.link # None
        /\ last.link[1].input \in DOMAIN links
        /\ links[last.link[1].input] = last.link[1].output
        /\ last.pass
        /\ last.done

C27_Witness ==
    /\ last.op = "link" /\ last.done
    /\ last.link[1].input.node = last.link[1].output.node
    /\ links[last.link[1].input] = last.link[1].output
    /\ \E i \in DOMAIN links : \E j \in DOMAIN links :
          /\ i.node # j.node
          /\ {i.node, j.node} \subseteq DOMAIN nodes
          /\ links[i].node = j.node
          /\ links[j].node = i.node
    /\ \E i \in DOMAIN links :
          i.node \notin DOMAIN nodes \/ links[i].node \notin DOMAIN nodes

\* C25: in a pass the root is evaluated first, and a node first reached d
\* links away of the root is evaluated before every node first reached d + 1
\* links away.
C25_BreadthFirst ==
    (last.pass /\ last.node \in DOMAIN nodes) =>
        /\ last.evals # <<>>
        /\ last.evals[1].node = last.node
        /\ \A d \in 0..Cardinality(DOMAIN nodes) :
           \A m \in Level(links, last.node, d) \cap DOMAIN nodes :
           \A w \in Level(links, last.node, d + 1) \cap DOMAIN nodes :
               /\ Positions(EvalNodes(last.evals), m) # {}
               /\ Positions(EvalNodes(last.evals), w) # {}
               /\ Min(Positions(EvalNodes(last.evals), m))
                    < Min(Positions(EvalNodes(last.evals), w))

\* A pass that evaluated a node two links away of the root after a node one
\* link away that was pushed after the parent of the former.
C25_Witness ==
    /\ last.pass /\ last.node \in DOMAIN nodes
    /\ Len(last.evals) = 4
    /\ Level(links, last.node, 1) = {last.evals[2].node, last.evals[3].node}
    /\ Level(links, last.node, 2) = {last.evals[4].node}
    /\ \E i \in DOMAIN links :
          i.node = last.evals[4].node /\ links[i].node = last.evals[2].node
    /\ \A i \in DOMAIN links :
          i.node = last.evals[4].node => links[i].node # last.evals[3].node

\* C29: a builder takes two declarations of one name: the node is registered
\* with both entries on its port list, the two handles are one identity, a
\* link made through one input handle is the link read through the other,
\* and the value set through one output handle is the value an input linked
\* to the other reads.
C29_SameNameSamePort ==
    \A node \in DOMAIN issued.declared :
        LET d == issued.declared[node]
            set_by_first == IF d.output_handles[1] \in DOMAIN values
                            THEN values[d.output_handles[1]] ELSE None
        IN /\ node \in DOMAIN nodes
           /\ Len(nodes[node].inputs) = 2 /\ Len(nodes[node].outputs) = 2
           /\ \A k \in 1..2 :
                 /\ nodes[node].inputs[k].name = d.inputs[k]
                 /\ nodes[node].outputs[k].name = d.outputs[k]
           /\ d.inputs[1] = d.inputs[2] =>
                 /\ d.input_handles[1] = d.input_handles[2]
                 /\ get(links, values, d.input_handles[1])
                      = get(links, values, d.input_handles[2])
                 /\ \A k \in 1..2 :
                       (last.op = "link" /\ last.link[1].input = d.input_handles[k]) =>
                           /\ d.input_handles[3 - k] \in DOMAIN links
                           /\ links[d.input_handles[3 - k]] = last.link[1].output
           /\ d.outputs[1] = d.outputs[2] =>
                 /\ d.output_handles[1] = d.output_handles[2]
                 /\ \A i \in DOMAIN links :
                       links[i] = d.output_handles[2] =>
                           get(links, values, i) = set_by_first

C29_Witness ==
    \E node \in DOMAIN issued.declared :
        LET d == issued.declared[node]
        IN /\ d.inputs[1] = d.inputs[2]
           /\ d.outputs[1] = d.outputs[2]
           /\ last.op = "link" /\ last.link[1].input = d.input_handles[1]
           /\ d.output_handles[1] \in DOMAIN values
           /\ values[d.output_handles[1]] # None
           /\ \E i \in DOMAIN links :
                 /\ i.node # node
                 /\ links[i] = d.output_handles[2]
                 /\ get(links, values, i) = values[d.output_handles[1]]

\* C31: on the graph of a Number and three Adds, the cache reached by link
\* calls that installed an acyclic table, each input once, is the cache that
\* the same calls made in one fixed order reach.
C31_LinkOrderIndependent ==
    values = link_all(Order_new.graph, links, DOMAIN links).values

\* C32: the stacking order holds every registered node exactly once and
\* nothing else; finish appends the new node; a left press over registered
\* nodes, taken while no interaction is under way and starting no
\* connection, moves the topmost of them to the end and keeps the others in
\* their order; and no other call changes the order.
C32_OrderHoldsEveryNodeOnce ==
    /\ [](/\ Range(order) = DOMAIN nodes
          /\ \A n \in DOMAIN nodes : Count(order, n) = 1)
    /\ [][/\ (last' # last /\ last'.op = "finish") => order' = Append(order, last'.node)
          /\ (/\ nodes' = nodes
              /\ editor.interaction.kind = "None"
              /\ editor'.interaction.kind # "Connecting"
              /\ editor'.event = [type |-> "ButtonPressed", button |-> "Left"]
              /\ editor'.hovered # {}) =>
                LET top == order[Max({k \in DOMAIN order : order[k] \in editor'.hovered})]
                IN order' = Append(SelectSeq(order, LAMBDA n : n # top), top)
          /\ (editor' # editor /\ order' # order) =>
                /\ editor'.event = [type |-> "ButtonPressed", button |-> "Left"]
                /\ \E k \in DOMAIN order :
                      order' = Append(SelectSeq(order, LAMBDA n : n # order[k]), order[k])]_vars

C32_Witness ==
    /\ Len(order) = 2
    /\ order[1] > order[2]
    /\ editor.event = [type |-> "ButtonPressed", button |-> "Left"]
    /\ editor.hovered = {order[2]}
    /\ Range(order) = DOMAIN nodes

\* C33: an interaction that is Panning or Resizing stays of its kind or
\* becomes None, and it becomes None only in a call for the release of a
\* button that ends it (left or middle for Panning, left for Resizing).
C33_EndsInNone ==
    [][editor.interaction.kind \in {"Panning", "Resizing"} =>
         \/ editor'.interaction.kind = editor.interaction.kind
         \/ /\ editor'.interaction.kind = "None"
            /\ editor'.event.type = "ButtonReleased"
            /\ editor'.event.button \in
                   (IF editor.interaction.kind = "Panning"
                    THEN {"Left", "Middle"} ELSE {"Left"})]_vars

\* C34: a left release while Connecting ends the connection and publishes at
\* most one link; it publishes one only when on_link is set and a registered
\* node under the cursor has a connector of the other kind than the pressed
\* one, and the link pairs the pressed connector with such a connector.
C34_ReleaseEndsConnection ==
    [][(/\ editor.interaction.kind = "Connecting"
        /\ editor'.event = [type |-> "ButtonReleased", button |-> "Left"]) =>
         /\ editor'.interaction = Interaction_None
         /\ Len(editor'.published) <= 1
         /\ editor'.published # <<>> =>
               /\ editor'.on_link
               /\ \E n \in editor'.hovered \cap DOMAIN nodes :
                     IF editor.interaction.connector.kind = "Input"
                     THEN /\ editor'.published[1].input = editor.interaction.connector.id
                          /\ editor'.published[1].output \in Range(nodes[n].outputs)
                     ELSE /\ editor'.published[1].output = editor.interaction.connector.id
                          /\ editor'.published[1].input \in Range(nodes[n].inputs)]_vars

C34_Witness ==
    /\ editor.event = [type |-> "ButtonReleased", button |-> "Left"]
    /\ editor.interaction = Interaction_None
    /\ Len(editor.published) = 1
    /\ editor.published[1].input \in Range(nodes[1].inputs)
    /\ editor.published[1].output \in Range(nodes[0].outputs)

\* C35: the zoom starts at 1.0 and is within [0.25, 4.0] in every state; a
\* wheel scroll under the command modifier doubles it (y > 0) or halves it
\* and clamps the result to that range, and no other call changes it.
C35_ZoomStaysInRange ==
    /\ editor.zoom = ZoomOne
    /\ [](editor.zoom \in ZoomMin..ZoomMax)
    /\ [][IF editor'.event.type = "WheelScrolled" /\ editor.modifiers.command
          THEN \/ editor' = editor
               \/ editor'.zoom = clamp(IF editor'.event.delta.y > 0
                                       THEN 2 * editor.zoom ELSE editor.zoom \div 2,
                                       ZoomMin, ZoomMax)
          ELSE editor'.zoom = editor.zoom]_vars

C35_Witness ==
    /\ editor.event.type = "WheelScrolled"
    /\ editor.modifiers.command
    /\ editor.zoom = ZoomMax
    /\ editor.translation # <<0, 0>>

\* C36: under redraws of the visible widget at advancing instants, a
\* Ticking animation whose text is not changed reaches Done; a redraw of the
\* visible widget while Ticking moves to Done exactly when the tick count
\* has reached the number of characters and otherwise requests another
\* redraw; once Done, a redraw requests nothing and the animation stays
\* Done until a layout sees a different text, and such a layout leaves the
\* animation Ticking.
C36_TypewriterReachesDone ==
    /\ \A c \in 0..MaxChanges :
          (typewriter.animation = "Ticking" /\ typewriter.changes = c)
              ~> (typewriter.animation = "Done" \/ typewriter.changes # c)
    /\ [][/\ (/\ typewriter.animation = "Ticking"
              /\ typewriter'.op = "update" /\ typewriter'.visible
              /\ typewriter'.changes = typewriter.changes
              /\ typewriter' # typewriter) =>
                LET start == IF typewriter.start = None THEN typewriter'.now
                             ELSE typewriter.start[1]
                    reached == tick_of(typewriter'.now, start, typewriter.speed)
                                  >= Len(typewriter.fragment)
                IN /\ typewriter'.animation = "Done" <=> reached
                   /\ typewriter'.animation = "Ticking" <=> typewriter'.requested # None
                   /\ typewriter'.animation \in {"Done", "Ticking"}
          /\ typewriter.animation = "Done" =>
                /\ typewriter'.requested = None
                /\ \/ typewriter'.animation = "Done" /\ typewriter'.changes = typewriter.changes
                   \/ /\ typewriter'.op = "layout"
                      /\ typewriter'.text # typewriter.text
                      /\ typewriter'.animation = "Ticking"
                      /\ typewriter'.start = None
          /\ (typewriter'.op = "layout" /\ typewriter'.text # typewriter.text) =>
                typewriter'.animation = "Ticking" /\ typewriter'.start = None]_vars

C36_Witness ==
    /\ typewriter.animation = "Done"
    /\ typewriter.op = "update"
    /\ typewriter.visible
    /\ Len(typewriter.fragment) = MaxChars
    /\ typewriter.speed = MaxSpeed
    /\ typewriter.changes = MaxChanges

====
